---- MODULE Spec2Model ----
(***************************************************************************)
(* A model of the White-River-Basin dashboard's time-series pipeline:      *)
(* parseDateTime, parseNumber and calculateAxisDomain of DamDetail.tsx,    *)
(* and the DamDetail page state (record collection, selected interval,     *)
(* reference date) with the derived filteredData / visualizationData.      *)
(*                                                                         *)
(* Representation.                                                         *)
(*   - A JavaScript string is a sequence of one-character strings; the     *)
(*     values undefined and null are the tuples Undefined and Null.        *)
(*   - A Date is [k, t]: k = "date" with t the local wall-clock time in    *)
(*     seconds since 1970-01-01T00:00 (a zone without DST transitions),    *)
(*     k = "invalid" for an Invalid Date (time value NaN), k = "undefined" *)
(*     for a missing Date.                                                 *)
(*   - A number is [k, v]: k = "fin" with v the value in units of 1/Scale, *)
(*     k = "inf" with v the sign, k = "nan", k = "undef".                  *)
(***************************************************************************)
EXTENDS Integers, Sequences, FiniteSets, TLC

VARIABLES
    damData,        \* the query result: [k, data], k = "undefined" until the fetch resolves
    dateRange,      \* React state dateRange: [def, from, to]
    referenceDate,  \* React state referenceDate
    effectPending,  \* the data-load effect is scheduled and has not run yet
    storage,        \* localStorage entry under TIME_RANGE_STORAGE_KEY
    isChangingRange,\* React state isChangingRange
    visualizationIndex, \* React state visualizationIndex, a number
    dateFnsMajor,   \* major version of the date-fns build (2 or 3)
    now,            \* the clock read by new Date()
    call,           \* pure-function harness: the function applied ("none" before)
    args,           \* pure-function harness: its arguments
    result,         \* pure-function harness: its return value
    history,        \* pure-function harness: <<clock, return value>> of each invocation
    phoneNumber,    \* ConsentOptIn: React state phoneNumber
    consent,        \* ConsentOptIn: React state consent
    isSubmitting,   \* ConsentOptIn: React state isSubmitting
    submitStatus,   \* ConsentOptIn: React state submitStatus: "null", "success" or "error"
    errors,         \* ConsentOptIn: React state errors: [phone, consent]
    pending         \* ConsentOptIn: the handleSubmit calls waiting for their timer

vars == <<damData, dateRange, referenceDate, effectPending, storage, isChangingRange,
          visualizationIndex, dateFnsMajor, now, call, args, result, history,
          phoneNumber, consent, isSubmitting, submitStatus, errors, pending>>

pageVars == <<damData, dateRange, referenceDate, effectPending, storage, isChangingRange,
              visualizationIndex, dateFnsMajor>>
pureVars == <<call, args, result, history>>
formVars == <<phoneNumber, consent, isSubmitting, submitStatus, errors, pending>>

-----------------------------------------------------------------------------
(* The SMS opt-in form (ConsentOptIn) as it mounts: the useState initial   *)
(* values. An entry of errors is "absent", "null" or the message's kind.   *)

NoErrors == [phone |-> "absent", consent |-> "absent"]

FormIdle ==
    /\ phoneNumber = <<>>
    /\ consent = FALSE
    /\ isSubmitting = FALSE
    /\ submitStatus = "null"
    /\ errors = NoErrors
    /\ pending = <<>>

-----------------------------------------------------------------------------
(* JavaScript values *)

Undefined == <<"undefined">>
Null == <<"null">>

\* !s for a string-or-missing value: undefined, null and "" are falsy
Falsy(s) == s = Undefined \/ s = Null \/ s = <<>>

Digits == {"0", "1", "2", "3", "4", "5", "6", "7", "8", "9"}
WhiteSpace == {" "}

DigitVal(c) ==
    CASE c = "0" -> 0 [] c = "1" -> 1 [] c = "2" -> 2 [] c = "3" -> 3
      [] c = "4" -> 4 [] c = "5" -> 5 [] c = "6" -> 6 [] c = "7" -> 7
      [] c = "8" -> 8 [] c = "9" -> 9

\* integers as parseInt returns them: a value or NaN
IntNaN == [nan |-> TRUE, v |-> 0]
IntOf(n) == [nan |-> FALSE, v |-> n]

\* Dates
InvalidDate == [k |-> "invalid", t |-> 0]
UndefinedDate == [k |-> "undefined", t |-> 0]
DateAt(t) == [k |-> "date", t |-> t]

SecPerMin == 60
SecPerHour == 3600
SecPerDay == 86400

-----------------------------------------------------------------------------
(* String.prototype.split with a one-character separator *)

RECURSIVE SplitFrom(_, _, _, _)
SplitFrom(s, sep, i, cur) ==
    IF i > Len(s) THEN <<cur>>
    ELSE IF s[i] = sep THEN <<cur>> \o SplitFrom(s, sep, i + 1, <<>>)
    ELSE SplitFrom(s, sep, i + 1, Append(cur, s[i]))

Split(s, sep) == SplitFrom(s, sep, 1, <<>>)

\* array destructuring: the i-th element, undefined when the array is shorter
Nth(parts, i) == IF i <= Len(parts) THEN parts[i] ELSE Undefined

(* parseInt(s) with no radix on a decimal string: leading white space is   *)
(* skipped, one sign is accepted, then the longest run of digits is read;  *)
(* no digit at all gives NaN. parseInt(undefined) is NaN.                  *)
RECURSIVE SkipSpace(_, _)
SkipSpace(s, i) ==
    IF i <= Len(s) /\ s[i] \in WhiteSpace THEN SkipSpace(s, i + 1) ELSE i

RECURSIVE DigitRun(_, _, _)
DigitRun(s, i, acc) ==
    IF i <= Len(s) /\ s[i] \in Digits
    THEN DigitRun(s, i + 1, 10 * acc + DigitVal(s[i]))
    ELSE acc

parseInt(s) ==
    IF s = Undefined \/ s = Null THEN IntNaN
    ELSE LET i == SkipSpace(s, 1)
             neg == i <= Len(s) /\ s[i] = "-"
             j == IF i <= Len(s) /\ s[i] \in {"-", "+"} THEN i + 1 ELSE i
         IN  IF j <= Len(s) /\ s[j] \in Digits
             THEN IntOf(IF neg THEN 0 - DigitRun(s, j, 0) ELSE DigitRun(s, j, 0))
             ELSE IntNaN

-----------------------------------------------------------------------------
(* The Date object: ECMAScript MakeDay / MakeDate and the local getters *)

\* days from 1970-01-01 to the civil date y-m-d (m in 1..12), proleptic Gregorian
DaysFromCivil(y, m, d) ==
    LET yy == IF m <= 2 THEN y - 1 ELSE y
        era == yy \div 400
        yoe == yy - era * 400
        mp == (m + 9) % 12
        doy == (153 * mp + 2) \div 5 + d - 1
        doe == yoe * 365 + yoe \div 4 - yoe \div 100 + doy
    IN  era * 146097 + doe - 719468

\* MakeDay(year, month, date): month is 0-based and may lie outside 0..11,
\* date may lie outside the month; both roll over
MakeDay(year, month, date) ==
    DaysFromCivil(year + month \div 12, (month % 12) + 1, 1) + date - 1

\* new Date(year, monthIndex, day): local midnight; a NaN argument gives an
\* Invalid Date; a year in 0..99 means 1900 + year
NewDate(year, month, day) ==
    IF year.nan \/ month.nan \/ day.nan THEN InvalidDate
    ELSE LET y == IF year.v >= 0 /\ year.v <= 99 THEN 1900 + year.v ELSE year.v
         IN  DateAt(MakeDay(y, month.v, day.v) * SecPerDay)

\* the civil date of a day number, as [y, m, d] with m in 1..12
CivilFromDays(z0) ==
    LET z == z0 + 719468
        era == z \div 146097
        doe == z - era * 146097
        yoe == (doe - doe \div 1460 + doe \div 36524 - doe \div 146096) \div 365
        doy == doe - (365 * yoe + yoe \div 4 - yoe \div 100)
        mp == (5 * doy + 2) \div 153
        d == doy - (153 * mp + 2) \div 5 + 1
        m == IF mp < 10 THEN mp + 3 ELSE mp - 9
        y == yoe + era * 400
    IN  [y |-> IF m <= 2 THEN y + 1 ELSE y, m |-> m, d |-> d]

DayOf(t) == t \div SecPerDay
getFullYear(date) == CivilFromDays(DayOf(date.t)).y
getMonth(date) == CivilFromDays(DayOf(date.t)).m - 1
getDate(date) == CivilFromDays(DayOf(date.t)).d
getHours(date) == (date.t % SecPerDay) \div SecPerHour
getMinutes(date) == (date.t % SecPerHour) \div SecPerMin
getSeconds(date) == date.t % SecPerMin

\* date.setHours(hours, minutes, 0, 0)
SetHours(date, hours, minutes) ==
    IF date.k # "date" \/ hours.nan \/ minutes.nan THEN InvalidDate
    ELSE DateAt(DayOf(date.t) * SecPerDay + hours.v * SecPerHour + minutes.v * SecPerMin)

-----------------------------------------------------------------------------
(* parseDateTime(dateStr, timeStr): clock is the value new Date() returns.   *)
(* String.split and parseInt do not throw on strings, so with string (or   *)
(* missing) arguments the catch branch is never taken.                     *)

parseDateTimeSwapped(dateStr, timeStr, clock) ==
    IF Falsy(dateStr) THEN DateAt(clock)
    ELSE LET parts == Split(dateStr, ".")
             month == Nth(parts, 1)
             day == Nth(parts, 2)
             year == Nth(parts, 3)
             m == parseInt(month)
             date == NewDate(parseInt(year),
                             IF m.nan THEN IntNaN ELSE IntOf(m.v - 1),
                             parseInt(day))
         IN  IF ~Falsy(timeStr)
             THEN LET tp == Split(timeStr, ":")
                  IN  SetHours(date, parseInt(Nth(tp, 1)), parseInt(Nth(tp, 2)))
             ELSE date

\* a parseDateTime that reads the clock whenever a field is not a number
parseDateTimeNowOnNaN(dateStr, timeStr, clock) ==
    IF Falsy(dateStr) THEN DateAt(clock)
    ELSE LET parts == Split(dateStr, ".")
             m == parseInt(Nth(parts, 2))
             date == NewDate(parseInt(Nth(parts, 3)),
                             IF m.nan THEN IntNaN ELSE IntOf(m.v - 1),
                             parseInt(Nth(parts, 1)))
             tp == Split(timeStr, ":")
             stamped == IF ~Falsy(timeStr)
                        THEN SetHours(date, parseInt(Nth(tp, 1)), parseInt(Nth(tp, 2)))
                        ELSE date
         IN  IF stamped.k = "invalid" THEN DateAt(clock) ELSE stamped

parseDateTime(dateStr, timeStr, clock) ==
    IF Falsy(dateStr) THEN DateAt(clock)
    ELSE LET parts == Split(dateStr, ".")
             day == Nth(parts, 1)
             month == Nth(parts, 2)
             year == Nth(parts, 3)
             m == parseInt(month)
             date == NewDate(parseInt(year),
                             IF m.nan THEN IntNaN ELSE IntOf(m.v - 1),
                             parseInt(day))
         IN  IF ~Falsy(timeStr)
             THEN LET tp == Split(timeStr, ":")
                  IN  SetHours(date, parseInt(Nth(tp, 1)), parseInt(Nth(tp, 2)))
             ELSE date

-----------------------------------------------------------------------------
(* date-fns helpers on local wall-clock Dates *)

startOfDay(date) ==
    IF date.k # "date" THEN InvalidDate ELSE DateAt(DayOf(date.t) * SecPerDay)

startOfHour(date) ==
    IF date.k # "date" THEN InvalidDate ELSE DateAt((date.t \div SecPerHour) * SecPerHour)

addHours(date, amount) ==
    IF date.k # "date" THEN InvalidDate ELSE DateAt(date.t + amount * SecPerHour)

addDays(date, amount) ==
    IF date.k # "date" THEN InvalidDate ELSE DateAt(date.t + amount * SecPerDay)

\* addMonths keeps the day of month, clamped to the last day of the target
\* month, and the time of day
addMonths(date, amount) ==
    IF date.k # "date" THEN InvalidDate
    ELSE LET civil == CivilFromDays(DayOf(date.t))
             timeOfDay == date.t % SecPerDay
             endOfDesiredMonth == MakeDay(civil.y, (civil.m - 1) + amount + 1, 0)
             last == CivilFromDays(endOfDesiredMonth)
         IN  IF civil.d >= last.d
             THEN DateAt(endOfDesiredMonth * SecPerDay + timeOfDay)
             ELSE DateAt(DaysFromCivil(last.y, last.m, civil.d) * SecPerDay + timeOfDay)

subYears(date, amount) == addMonths(date, 0 - 12 * amount)

(* isWithinInterval(date, {start, end}). date-fns 2 throws a RangeError    *)
(* unless start <= end; date-fns 3 and later order the two bounds first.   *)
(* The answer is "true", "false" or "throw".                               *)
isWithinInterval(date, start, end, major) ==
    IF major = 2 /\ ~(start.k = "date" /\ end.k = "date" /\ start.t <= end.t)
    THEN "throw"
    ELSE IF date.k # "date" \/ start.k # "date" \/ end.k # "date" THEN "false"
    ELSE LET lo == IF start.t <= end.t THEN start.t ELSE end.t
             hi == IF start.t <= end.t THEN end.t ELSE start.t
         IN  IF date.t >= lo /\ date.t <= hi THEN "true" ELSE "false"

-----------------------------------------------------------------------------
(* Date.prototype.toISOString and new Date(string). A Date of the model is *)
(* local wall-clock time; the ISO text is UTC, TimezoneOffset minutes      *)
(* later (the value of getTimezoneOffset(): 360 is US Central Standard     *)
(* Time, the zone of the White River basin).                               *)

TimezoneOffset == 360

DigitChar(i) ==
    CASE i = 0 -> "0" [] i = 1 -> "1" [] i = 2 -> "2" [] i = 3 -> "3" [] i = 4 -> "4"
      [] i = 5 -> "5" [] i = 6 -> "6" [] i = 7 -> "7" [] i = 8 -> "8" [] i = 9 -> "9"

\* n written with two and with four digits
Pad2(n) == <<DigitChar((n \div 10) % 10), DigitChar(n % 10)>>
Pad4(n) == Pad2(n \div 100) \o Pad2(n % 100)

\* toISOString of a valid Date with a year in 0..9999 and no milliseconds:
\* YYYY-MM-DDTHH:mm:ss.000Z; on an Invalid Date the method throws a
\* RangeError, which the callers test for with CanSerialize
CanSerialize(date) == date.k = "date"

toISOString(date) ==
    LET utc == DateAt(date.t + TimezoneOffset * SecPerMin)
    IN  Pad4(getFullYear(utc)) \o <<"-">> \o Pad2(getMonth(utc) + 1) \o <<"-">>
            \o Pad2(getDate(utc)) \o <<"T">> \o Pad2(getHours(utc)) \o <<":">>
            \o Pad2(getMinutes(utc)) \o <<":">> \o Pad2(getSeconds(utc))
            \o <<".", "0", "0", "0", "Z">>

\* the text has the shape dddd-dd-ddTdd:dd:dd.dddZ
IsISOText(text) ==
    /\ text # Undefined /\ text # Null
    /\ Len(text) = 24
    /\ text[5] = "-" /\ text[8] = "-" /\ text[11] = "T" /\ text[14] = ":"
    /\ text[17] = ":" /\ text[20] = "." /\ text[24] = "Z"
    /\ \A i \in (1..23) \ {5, 8, 11, 14, 17, 20} : text[i] \in Digits

\* new Date(value) for a string or a missing value: an ISO text in UTC gives
\* its instant (milliseconds dropped), anything else an Invalid Date
NewDateFromString(text) ==
    IF ~IsISOText(text) THEN InvalidDate
    ELSE LET year == DigitRun(SubSeq(text, 1, 4), 1, 0)
             month == DigitRun(SubSeq(text, 6, 7), 1, 0)
             day == DigitRun(SubSeq(text, 9, 10), 1, 0)
             hours == DigitRun(SubSeq(text, 12, 13), 1, 0)
             minutes == DigitRun(SubSeq(text, 15, 16), 1, 0)
             seconds == DigitRun(SubSeq(text, 18, 19), 1, 0)
         IN  IF month \notin 1..12 \/ day \notin 1..31 \/ hours > 23 \/ minutes > 59
                    \/ seconds > 59
             THEN InvalidDate
             ELSE DateAt(MakeDay(year, month - 1, day) * SecPerDay + hours * SecPerHour
                           + minutes * SecPerMin + seconds - TimezoneOffset * SecPerMin)

-----------------------------------------------------------------------------
(* Array helpers *)

\* Array.prototype.filter is SelectSeq of the Sequences module

\* dateA.getTime() - dateB.getTime(); a NaN difference counts as 0
TimeDifference(dateA, dateB) ==
    IF dateA.k # "date" \/ dateB.k # "date" THEN 0 ELSE dateA.t - dateB.t

\* the comparator of both sorts
CompareByTime(a, b, clock) ==
    TimeDifference(parseDateTime(a.date, a.time, clock), parseDateTime(b.date, b.time, clock))

\* Array.prototype.sort is stable: x goes after every element not greater
RECURSIVE InsertSorted(_, _, _)
InsertSorted(sorted, x, clock) ==
    IF sorted = <<>> THEN <<x>>
    ELSE LET n == Len(sorted)
         IN  IF CompareByTime(sorted[n], x, clock) <= 0 THEN Append(sorted, x)
             ELSE Append(InsertSorted(SubSeq(sorted, 1, n - 1), x, clock), sorted[n])

RECURSIVE SortFrom(_, _, _)
SortFrom(s, acc, clock) ==
    IF s = <<>> THEN acc ELSE SortFrom(Tail(s), InsertSorted(acc, Head(s), clock), clock)

SortByTimeUnsorted(s, clock) == s

SortByTime(s, clock) == SortFrom(s, <<>>, clock)

-----------------------------------------------------------------------------
(* Numbers: decimal fixed point with four fractional digits, plus the      *)
(* IEEE values Infinity, -Infinity and NaN, and undefined                  *)

Scale == 10000

Fin(v) == [k |-> "fin", v |-> v]
Inf(sign) == [k |-> "inf", v |-> sign]
NaN == [k |-> "nan", v |-> 0]
Undef == [k |-> "undef", v |-> 0]
NumOf(n) == Fin(n * Scale)

\* a < b and a <= b on numbers; false when either is NaN or undefined
Less(a, b) ==
    /\ a.k \in {"fin", "inf"} /\ b.k \in {"fin", "inf"}
    /\ \/ a.k = "fin" /\ b.k = "fin" /\ a.v < b.v
       \/ a.k = "fin" /\ b.k = "inf" /\ b.v > 0
       \/ a.k = "inf" /\ a.v < 0 /\ b.k = "fin"
       \/ a.k = "inf" /\ b.k = "inf" /\ a.v < b.v

LessEq(a, b) == a.k \in {"fin", "inf"} /\ b.k \in {"fin", "inf"} /\ (Less(a, b) \/ a = b)

\* a * (p / q) for a positive constant p / q
Times(a, p, q) ==
    IF a.k = "fin" THEN Fin((a.v * p) \div q)
    ELSE IF a.k = "inf" THEN a
    ELSE NaN

Negate(a) == IF a.k \in {"fin", "inf"} THEN [k |-> a.k, v |-> 0 - a.v] ELSE NaN

Plus(a, b) ==
    IF a.k = "fin" /\ b.k = "fin" THEN Fin(a.v + b.v)
    ELSE IF a.k = "inf" /\ b.k = "fin" THEN a
    ELSE IF a.k = "fin" /\ b.k = "inf" THEN b
    ELSE IF a.k = "inf" /\ b.k = "inf" /\ a.v = b.v THEN a
    ELSE NaN

Minus(a, b) == Plus(a, Negate(b))

(* parseFloat on a string without exponent part: leading white space is    *)
(* skipped, a sign is accepted, then "Infinity" or the longest decimal     *)
(* literal (digits, optionally a point and digits) is read; what follows   *)
(* is ignored; no literal gives NaN.                                       *)
Str_Infinity == <<"I", "n", "f", "i", "n", "i", "t", "y">>

RECURSIVE DigitRunEnd(_, _)
DigitRunEnd(s, i) ==
    IF i <= Len(s) /\ s[i] \in Digits THEN DigitRunEnd(s, i + 1) ELSE i

RECURSIVE FractionFrom(_, _, _)
FractionFrom(s, i, unit) ==
    IF i <= Len(s) /\ s[i] \in Digits
    THEN DigitVal(s[i]) * (unit \div 10) + FractionFrom(s, i + 1, unit \div 10)
    ELSE 0

parseFloat(s) ==
    IF s = Undefined \/ s = Null THEN NaN
    ELSE LET i == SkipSpace(s, 1)
             neg == i <= Len(s) /\ s[i] = "-"
             j == IF i <= Len(s) /\ s[i] \in {"-", "+"} THEN i + 1 ELSE i
             k == DigitRunEnd(s, j)
             hasPoint == k <= Len(s) /\ s[k] = "."
             m == IF hasPoint THEN DigitRunEnd(s, k + 1) ELSE k
             magnitude == DigitRun(s, j, 0) * Scale
                            + (IF hasPoint THEN FractionFrom(s, k + 1, Scale) ELSE 0)
         IN  IF j + 7 <= Len(s) /\ SubSeq(s, j, j + 7) = Str_Infinity
             THEN Inf(IF neg THEN -1 ELSE 1)
             ELSE IF k > j \/ (hasPoint /\ m > k + 1)
             THEN Fin(IF neg THEN 0 - magnitude ELSE magnitude)
             ELSE NaN

\* value.replace(/c/g, '')
Remove(s, c) == SelectSeq(s, LAMBDA x : x # c)

\* value.trim() === ''
IsBlank(s) == \A i \in 1..Len(s) : s[i] \in WhiteSpace

parseNumberKeepsCommas(value) ==
    IF Falsy(value) \/ IsBlank(value) THEN Fin(0)
    ELSE LET cleaned == Remove(value, "%")
             parsed == parseFloat(cleaned)
         IN  IF parsed.k = "nan" THEN Fin(0) ELSE parsed

parseNumber(value) ==
    IF Falsy(value) \/ IsBlank(value) THEN Fin(0)
    ELSE LET cleaned == Remove(Remove(value, ","), "%")
             parsed == parseFloat(cleaned)
         IN  IF parsed.k = "nan" THEN Fin(0) ELSE parsed

\* typeof val === 'number' && !isNaN(val) && val !== undefined
IsValidDatum(val) == val.k \in {"fin", "inf"}

\* Math.min(...xs) and Math.max(...xs) over numbers that are not NaN
RECURSIVE MathMin(_)
MathMin(xs) ==
    IF xs = <<>> THEN Inf(1)
    ELSE LET rest == MathMin(Tail(xs))
         IN  IF Less(Head(xs), rest) THEN Head(xs) ELSE rest

RECURSIVE MathMax(_)
MathMax(xs) ==
    IF xs = <<>> THEN Inf(-1)
    ELSE LET rest == MathMax(Tail(xs))
         IN  IF Less(rest, Head(xs)) THEN Head(xs) ELSE rest

calculateAxisDomainWidePadding(data) ==
    LET validData == SelectSeq(data, IsValidDatum)
        min == MathMin(validData)
        max == MathMax(validData)
        padding == Times(Minus(max, min), 10, 100)
    IN  IF Len(validData) = 0 THEN <<NumOf(0), NumOf(100)>>
        ELSE IF min = max THEN <<Times(min, 9, 10), Times(min, 12, 10)>>
        ELSE <<Minus(min, padding), Plus(max, padding)>>

calculateAxisDomain(data) ==
    LET validData == SelectSeq(data, IsValidDatum)
        min == MathMin(validData)
        max == MathMax(validData)
        padding == Times(Minus(max, min), 5, 100)
    IN  IF Len(validData) = 0 THEN <<NumOf(0), NumOf(100)>>
        ELSE IF min = max THEN <<Times(min, 9, 10), Times(min, 11, 10)>>
        ELSE <<Minus(min, padding), Plus(max, padding)>>

-----------------------------------------------------------------------------
(* The DamDetail page: inputs *)

MaxRecords == 2

\* a local wall-clock instant
At(y, m, d, hh, mm, ss) ==
    DaysFromCivil(y, m, d) * SecPerDay + hh * SecPerHour + mm * SecPerMin + ss

Str_bad == <<"b", "a", "d">>
Str_01_06_2019 == <<"0", "1", ".", "0", "6", ".", "2", "0", "1", "9">>
Str_15_09_2023 == <<"1", "5", ".", "0", "9", ".", "2", "0", "2", "3">>
Str_15_03_2024 == <<"1", "5", ".", "0", "3", ".", "2", "0", "2", "4">>
Str_14_30 == <<"1", "4", ":", "3", "0">>
Str_15_03_2022 == <<"1", "5", ".", "0", "3", ".", "2", "0", "2", "2">>
Str_14_03_2022 == <<"1", "4", ".", "0", "3", ".", "2", "0", "2", "2">>

\* the shapes of entry the fetch layer delivers: a null entry, a record
\* without date, an unparseable date, daily records, an hourly record
RecordPool ==
    { [nul |-> TRUE, date |-> Undefined, time |-> Undefined],
      [nul |-> FALSE, date |-> Undefined, time |-> Undefined],
      [nul |-> FALSE, date |-> Str_bad, time |-> Undefined],
      [nul |-> FALSE, date |-> Str_01_06_2019, time |-> Undefined],
      [nul |-> FALSE, date |-> Str_15_09_2023, time |-> Undefined],
      [nul |-> FALSE, date |-> Str_15_03_2024, time |-> Undefined],
      [nul |-> FALSE, date |-> Str_15_03_2024, time |-> Str_14_30] }

\* id stands for the identity of the JavaScript object: its place in the
\* fetched array
WithIds(rows) ==
    [i \in 1..Len(rows) |->
        [id |-> i, nul |-> rows[i].nul, date |-> rows[i].date, time |-> rows[i].time]]

Rec(date, time) == [nul |-> FALSE, date |-> date, time |-> time]

\* every collection of at most MaxRecords entries, and four longer ones:
\* out of order with a tie, dateless entries among dated ones, an hourly
\* record after midnight of the most recent day, and records two years and
\* two years and a day older than the most recent one
RecordSeqs ==
    UNION {[1..n -> RecordPool] : n \in 0..MaxRecords}
        \cup { <<Rec(Str_15_03_2024, Undefined), Rec(Str_15_09_2023, Undefined),
                 Rec(Str_15_09_2023, Undefined)>>,
               <<[nul |-> TRUE, date |-> Undefined, time |-> Undefined],
                 Rec(Undefined, Str_14_30), Rec(Str_15_03_2024, Undefined)>>,
               <<Rec(Str_15_03_2024, Str_14_30), Rec(Str_15_03_2024, Undefined),
                 Rec(Str_bad, Undefined), Rec(Str_15_09_2023, Undefined)>>,
               <<Rec(Str_15_03_2022, Undefined), Rec(Str_15_03_2024, Undefined),
                 Rec(Str_14_03_2022, Undefined)>> }

NoDamData == [k |-> "undefined", data |-> <<>>]
DamDataOf(rows) == [k |-> "data", data |-> WithIds(rows)]

NoRange == [def |-> FALSE, from |-> UndefinedDate, to |-> UndefinedDate]
Range(from, to) == [def |-> TRUE, from |-> from, to |-> to]

NowValues == {At(2024, 3, 16, 10, 20, 30)}

(* localStorage under TIME_RANGE_STORAGE_KEY: k = "absent" for no entry,    *)
(* k = "corrupt" for a text that is not JSON (or JSON without properties,  *)
(* such as null: reading parsed.from throws), k = "pair" for the JSON      *)
(* object {from, to}, each a string or missing.                            *)
NoEntry == [k |-> "absent", from |-> Undefined, to |-> Undefined]
CorruptEntry == [k |-> "corrupt", from |-> Undefined, to |-> Undefined]
Entry(from, to) == [k |-> "pair", from |-> from, to |-> to]

\* JSON.stringify({from: ..., to: ...}) of two Dates
EntryOf(from, to) == Entry(toISOString(from), toISOString(to))

\* what the storage holds when the page mounts: nothing, a corrupt text,
\* a pair saved by an earlier visit, a pair with start later than end, and
\* pairs whose from or to is no date
SavedValues ==
    { NoEntry,
      CorruptEntry,
      EntryOf(DateAt(At(2024, 3, 1, 0, 0, 0)), DateAt(At(2024, 3, 15, 0, 0, 0))),
      EntryOf(DateAt(At(2024, 3, 16, 0, 0, 0)), DateAt(At(2024, 3, 10, 0, 0, 0))),
      Entry(Str_bad, toISOString(DateAt(At(2024, 3, 15, 0, 0, 0)))),
      Entry(toISOString(DateAt(At(2024, 3, 1, 0, 0, 0))), Undefined) }

\* the useState initializer of dateRange: the restored range, undefined
\* when there is none
InitialDateRange(saved) ==
    IF saved.k = "pair"
    THEN LET from == NewDateFromString(saved.from)
             to == NewDateFromString(saved.to)
         IN  IF from.k = "date" /\ to.k = "date"
             THEN Range(startOfDay(from), startOfDay(to))
             ELSE NoRange
    ELSE NoRange

\* the storage after the initializer: the catch removes the entry when
\* JSON.parse or the property access threw
InitialStorage(saved) == IF saved.k = "corrupt" THEN NoEntry ELSE saved

-----------------------------------------------------------------------------
(* The DamDetail page: derived values *)

\* a thrown error inside a useMemo, or the computed rows
Thrown == [k |-> "error", rows |-> <<>>]
Rows(rows) == [k |-> "ok", rows |-> rows]

HasDate(item) == ~item.nul /\ ~Falsy(item.date)

\* the reduce callback: itemDate > latest ? itemDate : latest
LaterOf(itemDate, latest) ==
    IF itemDate.k = "date" /\ itemDate.t > latest.t THEN itemDate ELSE latest

\* the reduce of the data-load effect
RECURSIVE MostRecentFrom(_, _, _)
MostRecentFrom(data, latest, clock) ==
    IF data = <<>> THEN latest
    ELSE MostRecentFrom(Tail(data),
                        IF ~HasDate(Head(data)) THEN latest
                        ELSE LaterOf(parseDateTime(Head(data).date, Head(data).time, clock),
                                     latest),
                        clock)

mostRecentDate(data, clock) == MostRecentFrom(data, DateAt(0), clock)

defaultRange(latest) == Range(startOfDay(addMonths(latest, -6)), startOfDay(latest))

\* the callback without its guard against entries that have no date
InRangeKeepsDateless(item, range, reference, major, clock) ==
    IF ~HasDate(item) THEN "true"
    ELSE isWithinInterval(parseDateTime(item.date, item.time, clock),
                          range.from,
                          IF range.to.k # "undefined" THEN range.to ELSE reference,
                          major)

\* the filter callback of filteredData: "true", "false" or "throw"
InRange(item, range, reference, major, clock) ==
    IF ~HasDate(item) THEN "false"
    ELSE isWithinInterval(parseDateTime(item.date, item.time, clock),
                          range.from,
                          IF range.to.k # "undefined" THEN range.to ELSE reference,
                          major)

(* Array objects. damData.data is one array object; filter returns a new   *)
(* one; sort reorders the array it is called on and returns that array.    *)
(* obj names the object, rows are its contents.                            *)
FilteredInPlace(receiver, rows, name) == [obj |-> receiver, rows |-> rows]

\* receiver.filter(...): a new array object holding the rows kept
Filtered(receiver, rows, name) == [obj |-> name, rows |-> rows]

\* array.sort(by time): the same object, reordered
SortInPlace(array, clock) == [obj |-> array.obj, rows |-> SortByTime(array.rows, clock)]

\* the useMemo of filteredData: the array object it returns, sorted tells
\* whether the memo sorted it; k = "error" when the filter callback threw
filteredArrayOf(dam, range, reference, major, clock) ==
    IF dam.k # "data"
    THEN [k |-> "ok", obj |-> "empty", sorted |-> FALSE, rows |-> <<>>]
    ELSE IF range.from.k = "undefined"
    THEN [k |-> "ok", obj |-> "fetched", sorted |-> FALSE, rows |-> dam.data]
    ELSE IF \E i \in 1..Len(dam.data) :
                InRange(dam.data[i], range, reference, major, clock) = "throw"
    THEN [k |-> "error", obj |-> "none", sorted |-> FALSE, rows |-> <<>>]
    ELSE LET filtered ==
                 Filtered("fetched",
                          SelectSeq(dam.data,
                                    LAMBDA item :
                                        InRange(item, range, reference, major, clock) = "true"),
                          "filtered")
         IN  [k |-> "ok", sorted |-> TRUE] @@ SortInPlace(filtered, clock)

filteredDataOf(dam, range, reference, major, clock) ==
    LET array == filteredArrayOf(dam, range, reference, major, clock)
    IN  IF array.k = "ok" THEN Rows(array.rows) ELSE Thrown

filteredData == filteredDataOf(damData, dateRange, referenceDate, dateFnsMajor, now)

\* itemDate >= twoYearsAgo && itemDate <= referenceDate
Between(itemDate, twoYearsAgo, reference) ==
    /\ itemDate.k = "date"
    /\ itemDate.t >= twoYearsAgo.t
    /\ itemDate.t <= reference.t

\* the useMemo of visualizationData: the array object it returns
visualizationArrayOf(dam, reference, clock) ==
    IF dam.k # "data" THEN [obj |-> "empty", rows |-> <<>>]
    ELSE LET keep(item) ==
                 /\ HasDate(item)
                 /\ Between(parseDateTime(item.date, item.time, clock),
                            subYears(reference, 2), reference)
         IN  SortInPlace(Filtered("fetched", SelectSeq(dam.data, keep), "visualization"), clock)

visualizationDataOf(dam, reference, clock) == visualizationArrayOf(dam, reference, clock).rows

visualizationData == visualizationDataOf(damData, referenceDate, now)

\* the contents of the fetched array after a render evaluated both memos:
\* changed only if a sort was called on the fetched array itself
\* f is the array the filteredData memo returned
afterVisualization(f, afterFiltered, v) ==
    IF f.k = "ok" /\ v.obj = "fetched" THEN v.rows ELSE afterFiltered

afterFilteredMemo(dam, f) ==
    IF f.k = "ok" /\ f.sorted /\ f.obj = "fetched" THEN f.rows ELSE dam.data

afterBothMemos(dam, f, reference, clock) ==
    afterVisualization(f, afterFilteredMemo(dam, f),
                       visualizationArrayOf([dam EXCEPT !.data = afterFilteredMemo(dam, f)],
                                            reference, clock))

dataAfterRender(dam, range, reference, major, clock) ==
    afterBothMemos(dam, filteredArrayOf(dam, range, reference, major, clock), reference, clock)

\* the query result as the component holds it after rendering
Rendered(dam, range, reference, major, clock) ==
    [dam EXCEPT !.data = dataAfterRender(dam, range, reference, major, clock)]

\* the effect on visualizationData: the index of the first element, whatever
\* the sequence holds
resetIndexToFirst(index, visualization) == NumOf(0)

\* the effect on visualizationData: setVisualizationIndex(length - 1) when
\* the sequence is not empty
resetIndex(index, visualization) ==
    IF Len(visualization) > 0 THEN NumOf(Len(visualization) - 1) ELSE index

-----------------------------------------------------------------------------
(* The time-range picker's presets *)

TimeRangeValues == {"6h", "12h", "24h", "3d", "1w", "1m", "3m", "6m", "1y", "2y", "all"}

getDates(value, ref) ==
    Range(CASE value = "6h" -> addHours(startOfHour(ref), -6)
            [] value = "12h" -> addHours(startOfHour(ref), -12)
            [] value = "24h" -> addHours(startOfHour(ref), -24)
            [] value = "3d" -> addDays(startOfDay(ref), -3)
            [] value = "1w" -> addDays(startOfDay(ref), -7)
            [] value = "1m" -> addMonths(startOfDay(ref), -1)
            [] value = "3m" -> addMonths(startOfDay(ref), -3)
            [] value = "6m" -> addMonths(startOfDay(ref), -6)
            [] value = "1y" -> addMonths(startOfDay(ref), -12)
            [] value = "2y" -> addMonths(startOfDay(ref), -24)
            [] value = "all" -> DateAt(At(2020, 1, 1, 0, 0, 0)),
          ref)

\* what onDateRangeChange may be handed: the interval of a preset (one per
\* kind: hourly, daily, monthly, fixed start), a range whose end is not
\* chosen yet, or undefined
PagePresets == {"6h", "3d", "6m", "all"}

NewRanges(ref) ==
    {getDates(v, ref) : v \in PagePresets}
        \cup {NoRange, Range(DateAt(At(2024, 3, 1, 0, 0, 0)), UndefinedDate)}

-----------------------------------------------------------------------------
(* The DamDetail page: state machine *)

PureIdle == call = "none" /\ args = <<>> /\ result = <<>> /\ history = <<>>

Init ==
    /\ damData = NoDamData
    /\ \E saved \in SavedValues :
          /\ dateRange = InitialDateRange(saved)
          /\ storage = InitialStorage(saved)
    /\ now \in NowValues
    /\ referenceDate = DateAt(now)
    /\ effectPending = FALSE
    /\ isChangingRange = FALSE
    /\ visualizationIndex = NumOf(0)
    /\ dateFnsMajor \in {2, 3}
    /\ PureIdle
    /\ FormIdle

\* the query resolves with a record collection
DataLoaded ==
    /\ damData.k = "undefined"
    /\ \E rows \in RecordSeqs :
          /\ damData' = Rendered(DamDataOf(rows), dateRange, referenceDate, dateFnsMajor, now)
          /\ effectPending' = (Len(rows) > 0)
          /\ visualizationIndex' =
                resetIndex(visualizationIndex,
                           visualizationDataOf(DamDataOf(rows), referenceDate, now))
    /\ UNCHANGED <<dateRange, referenceDate, storage, isChangingRange, dateFnsMajor, now>>
    /\ UNCHANGED <<pureVars, formVars>>

\* useEffect on damData.data: reference date and default range
DataLoadEffect ==
    /\ effectPending
    /\ \E latest \in {mostRecentDate(damData.data, now)} :
           /\ referenceDate' = latest
           /\ dateRange' = defaultRange(latest)
           /\ damData' = Rendered(damData, defaultRange(latest), latest, dateFnsMajor, now)
           /\ visualizationIndex' =
                 resetIndex(visualizationIndex, visualizationDataOf(damData, latest, now))
    /\ effectPending' = FALSE
    /\ UNCHANGED <<storage, isChangingRange, dateFnsMajor, now>>
    /\ UNCHANGED <<pureVars, formVars>>

\* the try block of handleDateRangeChange: the entry written for a range
\* with both ends, no entry otherwise; toISOString throws on an Invalid
\* Date and the catch leaves the storage as it was
SavedRange(stored, newRange) ==
    IF newRange.from.k # "undefined" /\ newRange.to.k # "undefined"
    THEN IF CanSerialize(startOfDay(newRange.from)) /\ CanSerialize(startOfDay(newRange.to))
         THEN EntryOf(startOfDay(newRange.from), startOfDay(newRange.to))
         ELSE stored
    ELSE NoEntry

handleDateRangeChange ==
    /\ ~effectPending
    /\ \E newRange \in NewRanges(referenceDate) :
          /\ dateRange' = newRange
          /\ storage' = SavedRange(storage, newRange)
          /\ damData' = Rendered(damData, newRange, referenceDate, dateFnsMajor, now)
    /\ isChangingRange' = TRUE
    /\ UNCHANGED <<referenceDate, effectPending, visualizationIndex, dateFnsMajor, now>>
    /\ UNCHANGED <<pureVars, formVars>>

\* the timeout scheduled by handleDateRangeChange
RangeChangeSettled ==
    /\ isChangingRange
    /\ isChangingRange' = FALSE
    /\ UNCHANGED <<damData, dateRange, referenceDate, effectPending, storage,
                   visualizationIndex, dateFnsMajor, now>>
    /\ UNCHANGED <<pureVars, formVars>>

Next ==
    \/ DataLoaded
    \/ DataLoadEffect
    \/ handleDateRangeChange
    \/ RangeChangeSettled

Spec == Init /\ [][Next]_vars

-----------------------------------------------------------------------------
(* Range Filter: claims C1 - C4 (specification Spec) *)

\* the resolved timestamp of a record
TimestampOf(item) == parseDateTime(item.date, item.time, now)

RangeSelected == damData.k = "data" /\ dateRange.from.k # "undefined"
StartDate == dateRange.from
EndDate == IF dateRange.to.k # "undefined" THEN dateRange.to ELSE referenceDate

\* t lies in the closed interval [start, end]; empty when start > end
Within(item) ==
    /\ HasDate(item)
    /\ TimestampOf(item).k = "date"
    /\ StartDate.t <= TimestampOf(item).t
    /\ TimestampOf(item).t <= EndDate.t

InResult(item) == \E i \in 1..Len(filteredData.rows) : filteredData.rows[i] = item

\* C1 (as claimed): for every selected interval [start, end], every record of
\* the filtered result has start <= t <= end, and every dated input record
\* with start <= t <= end is in the result.
C1_ResultIsExactlyTheInterval ==
    RangeSelected =>
        /\ filteredData.k = "ok" =>
              \A i \in 1..Len(filteredData.rows) : Within(filteredData.rows[i])
        /\ \A j \in 1..Len(damData.data) :
              Within(damData.data[j]) => InResult(damData.data[j])

Sorted(rows) ==
    \A i \in 1..Len(rows) : \A j \in 1..Len(rows) :
        i < j =>
            /\ TimestampOf(rows[i]).k = "date"
            /\ TimestampOf(rows[j]).k = "date"
            /\ TimestampOf(rows[i]).t <= TimestampOf(rows[j]).t

Stable(rows) ==
    \A i \in 1..Len(rows) : \A j \in 1..Len(rows) :
        (i < j /\ TimestampOf(rows[i]) = TimestampOf(rows[j])) => rows[i].id < rows[j].id

C3_DatelessNeverInResult ==
    filteredData.k = "ok" =>
        \A i \in 1..Len(filteredData.rows) : HasDate(filteredData.rows[i])

\* C3 (amended): while an interval start is selected, a null entry or a
\* record without date is never in the filtered sequence.
C3_DatelessDroppedWhenRangeSelected ==
    (RangeSelected /\ filteredData.k = "ok") =>
        \A i \in 1..Len(filteredData.rows) : HasDate(filteredData.rows[i])

\* C3 witness: an interval is selected, the input holds a null entry and a
\* dated record, and the result is the dated record alone.
C3_Witness ==
    /\ RangeSelected /\ filteredData.k = "ok"
    /\ \E j \in 1..Len(damData.data) : damData.data[j].nul
    /\ \E j \in 1..Len(damData.data) :
          ~damData.data[j].nul /\ damData.data[j].date = Undefined
    /\ Len(filteredData.rows) = 1

\* C4 (as claimed): with an empty record sequence, or an interval that holds
\* none of the timestamps (start later than end included), the result is
\* the empty sequence and no error is raised.
C4_EmptyIntersectionIsEmpty ==
    (RangeSelected /\ \A j \in 1..Len(damData.data) : ~Within(damData.data[j])) =>
        filteredData = Rows(<<>>)

-----------------------------------------------------------------------------
(* DateTime Normalizer: claims C5, C6 (specification SpecParseDateTime) *)

Dot == <<".">>
DayTokens == {<<"0", "1">>, <<"1", "5">>, <<"2", "9">>, <<"3", "1">>}
MonthTokens == {<<"0", "2">>, <<"0", "3">>, <<"0", "9">>, <<"1", "2">>}
YearTokens == {<<"2", "0", "2", "3">>, <<"2", "0", "2", "4">>}

\* dd.mm.yyyy strings, among them days the month does not have (31.02, 29.02.2023)
DottedDates == {d \o Dot \o m \o Dot \o y : d \in DayTokens, m \in MonthTokens, y \in YearTokens}

MalformedDates ==
    { Undefined, <<>>, Str_bad,
      <<"1", "5", ".", "0", "3">>,
      <<"1", "5", ".", "x", "x", ".", "2", "0", "2", "4">>,
      <<"1", "5", "-", "0", "3", "-", "2", "0", "2", "4">>,
      <<"1", "5", ".", ".", "2", "0", "2", "4">> }

TimeStrings ==
    { Undefined, <<>>, Str_14_30,
      <<"0", "0", ":", "0", "0">>, <<"2", "3", ":", "5", "9">>, <<"0", "9", ":", "0", "5">>,
      Str_bad, <<"1", "4">>, <<"1", "4", ":", "x", "x">> }

ParseDateTimeArgs ==
    {[date |-> d, time |-> t] : d \in DottedDates \cup MalformedDates, t \in TimeStrings}

PageIdle ==
    /\ damData = NoDamData
    /\ dateRange = NoRange
    /\ storage = NoEntry
    /\ now \in NowValues
    /\ referenceDate = DateAt(now)
    /\ effectPending = FALSE
    /\ isChangingRange = FALSE
    /\ visualizationIndex = NumOf(0)
    /\ dateFnsMajor = 3

InitParseDateTime ==
    /\ PageIdle
    /\ FormIdle
    /\ call = "none"
    /\ args \in ParseDateTimeArgs
    /\ result = <<>>
    /\ history = <<>>

ApplyParseDateTime ==
    /\ call = "none"
    /\ call' = "parseDateTime"
    /\ result' = parseDateTime(args.date, args.time, now)
    /\ UNCHANGED <<args, now, history>>
    /\ UNCHANGED <<pageVars, formVars>>

SpecParseDateTime == InitParseDateTime /\ [][ApplyParseDateTime]_vars

AllDigits(tok) == tok # Undefined /\ Len(tok) > 0 /\ \A i \in 1..Len(tok) : tok[i] \in Digits

\* the value of a string of digits, read from its last digit
RECURSIVE NumeralValue(_)
NumeralValue(tok) ==
    IF tok = <<>> THEN 0
    ELSE 10 * NumeralValue(SubSeq(tok, 1, Len(tok) - 1)) + DigitVal(tok[Len(tok)])

IsLeapYear(y) == (y % 4 = 0 /\ y % 100 # 0) \/ y % 400 = 0

DaysInMonth(y, m) ==
    IF m = 2 THEN (IF IsLeapYear(y) THEN 29 ELSE 28)
    ELSE IF m \in {4, 6, 9, 11} THEN 30 ELSE 31

\* three fields of digits, or two for a time
NumericFields(s, sep, n) ==
    /\ ~Falsy(s)
    /\ Len(Split(s, sep)) = n
    /\ \A i \in 1..n : AllDigits(Split(s, sep)[i])

\* dd.mm.yyyy naming a day of the calendar
WellFormedDate(s) ==
    /\ NumericFields(s, ".", 3)
    /\ LET f == Split(s, ".")
       IN  /\ Len(f[1]) = 2 /\ Len(f[2]) = 2 /\ Len(f[3]) = 4
           /\ NumeralValue(f[3]) >= 1000
           /\ NumeralValue(f[2]) \in 1..12
           /\ NumeralValue(f[1]) \in 1..DaysInMonth(NumeralValue(f[3]), NumeralValue(f[2]))

\* HH:mm naming a minute of the day
WellFormedTime(s) ==
    /\ NumericFields(s, ":", 2)
    /\ LET f == Split(s, ":")
       IN  /\ Len(f[1]) = 2 /\ Len(f[2]) = 2
           /\ NumeralValue(f[1]) \in 0..23
           /\ NumeralValue(f[2]) \in 0..59

\* a missing field, a non-numeric token or a malformed string, in the date
\* or in a time that is given
ParseFailure(date, time) ==
    \/ ~NumericFields(date, ".", 3)
    \/ (~Falsy(time) /\ ~NumericFields(time, ":", 2))

\* C5 (as claimed): on any parse failure of the date or time argument,
\* parseDateTime returns the current moment.
C5_ParseFailureGivesNow ==
    (call = "parseDateTime" /\ ParseFailure(args.date, args.time)) => result = DateAt(now)

\* C6: for a well-formed date dd.mm.yyyy the result is local midnight of that
\* day, fields read as day, month, year; with a well-formed time HH:mm it is
\* that hour and minute of the same day, seconds zero.
C6_WellFormedDateTime ==
    (/\ call = "parseDateTime"
     /\ WellFormedDate(args.date)
     /\ (Falsy(args.time) \/ WellFormedTime(args.time))) =>
        LET d == Split(args.date, ".")
            t == Split(args.time, ":")
        IN  /\ result.k = "date"
            /\ getDate(result) = NumeralValue(d[1])
            /\ getMonth(result) + 1 = NumeralValue(d[2])
            /\ getFullYear(result) = NumeralValue(d[3])
            /\ getHours(result) = IF Falsy(args.time) THEN 0 ELSE NumeralValue(t[1])
            /\ getMinutes(result) = IF Falsy(args.time) THEN 0 ELSE NumeralValue(t[2])
            /\ getSeconds(result) = 0
            /\ (args.date = Str_15_03_2024 /\ Falsy(args.time)) => result.t = 1710460800
            /\ (args.date = Str_15_03_2024 /\ args.time = Str_14_30) => result.t = 1710513000

\* C6 witness: parseDateTime("15.03.2024", "14:30") has returned 14:30 of
\* 15 March 2024.
C6_Witness ==
    /\ call = "parseDateTime"
    /\ args.date = Str_15_03_2024 /\ args.time = Str_14_30
    /\ WellFormedDate(args.date) /\ WellFormedTime(args.time)
    /\ result = DateAt(1710513000)

-----------------------------------------------------------------------------
(* Numeric Coercer: claim C7 (specification SpecParseNumber) *)

MaxNumLen == 3

NumberAlphabet == {"1", "2", ",", "%", ".", "-", "x", " "}

Str_1_234_5 == <<"1", ",", "2", "3", "4", ".", "5">>
Str_42pct == <<"4", "2", "%">>
Str_42_ft == <<"4", "2", " ", "f", "t">>
Str_12abc == <<"1", "2", "a", "b", "c">>

\* every string over NumberAlphabet of at most MaxNumLen characters, the
\* examples of the specification, a unit-suffixed value, and undefined
NumberStrings ==
    UNION {[1..n -> NumberAlphabet] : n \in 0..MaxNumLen}
        \cup {Undefined, Str_1_234_5, Str_42pct, Str_42_ft, Str_12abc, Str_Infinity, Str_bad}

InitParseNumber ==
    /\ PageIdle
    /\ FormIdle
    /\ call = "none"
    /\ args \in {[value |-> v] : v \in NumberStrings}
    /\ result = <<>>
    /\ history = <<>>

ApplyParseNumber ==
    /\ call = "none"
    /\ call' = "parseNumber"
    /\ result' = parseNumber(args.value)
    /\ UNCHANGED <<args, now, history>>
    /\ UNCHANGED <<pageVars, formVars>>

SpecParseNumber == InitParseNumber /\ [][ApplyParseNumber]_vars

\* the text with its commas and percent signs removed
Stripped(s) == SelectSeq(s, LAMBDA c : c \notin {",", "%"})

Unsigned(u) == IF Len(u) > 0 /\ u[1] \in {"-", "+"} THEN SubSeq(u, 2, Len(u)) ELSE u

\* the digits of u before the point and after it
PointAt(u) == IF \E i \in 1..Len(u) : u[i] = "."
              THEN CHOOSE i \in 1..Len(u) : u[i] = "." /\ \A j \in 1..(i - 1) : u[j] # "."
              ELSE Len(u) + 1
IntegerDigits(u) == SubSeq(u, 1, PointAt(u) - 1)
FractionDigits(u) == SubSeq(u, PointAt(u) + 1, Len(u))

\* a decimal numeral: an optional sign, digits, optionally a point and
\* digits, with at least one digit
IsNumeral(u) ==
    LET b == Unsigned(u)
    IN  /\ \A i \in 1..Len(IntegerDigits(b)) : IntegerDigits(b)[i] \in Digits
        /\ \A i \in 1..Len(FractionDigits(b)) : FractionDigits(b)[i] \in Digits
        /\ Len(IntegerDigits(b)) + Len(FractionDigits(b)) > 0
        /\ Len(FractionDigits(b)) <= 4

RECURSIVE PowerOfTen(_)
PowerOfTen(n) == IF n = 0 THEN 1 ELSE 10 * PowerOfTen(n - 1)

\* the value of a numeral, in units of 1/Scale
ValueOfNumeral(u) ==
    LET b == Unsigned(u)
        magnitude == NumeralValue(IntegerDigits(b)) * Scale
                       + NumeralValue(FractionDigits(b)) * PowerOfTen(4 - Len(FractionDigits(b)))
    IN  IF Len(u) > 0 /\ u[1] = "-" THEN 0 - magnitude ELSE magnitude

\* a numeric string, possibly with thousands separators and percent signs
IsNumericString(s) == ~Falsy(s) /\ IsNumeral(Stripped(s))

Body(s) == LET u == Stripped(s) IN SubSeq(u, SkipSpace(u, 1), Len(u))

NumeralPrefixes(s) == {n \in 1..Len(Body(s)) : IsNumeral(SubSeq(Body(s), 1, n))}

Longest(ns) == CHOOSE n \in ns : \A m \in ns : m <= n

StartsWithInfinity(s) ==
    \/ (Len(Body(s)) >= 8 /\ SubSeq(Body(s), 1, 8) = Str_Infinity)
    \/ (Len(Body(s)) >= 9 /\ Body(s)[1] \in {"-", "+"} /\ SubSeq(Body(s), 2, 9) = Str_Infinity)

-----------------------------------------------------------------------------
(* Axis Domain Calculator: claims C8 - C10 (specification SpecAxisDomain) *)

MaxSeries == 3

DomainValues ==
    {Undef, NaN, Inf(1), Inf(-1), NumOf(0), NumOf(1), NumOf(5), NumOf(-5), NumOf(10)}

Series_1_2_3_4_10 == <<NumOf(1), NumOf(2), NumOf(3), NumOf(4), NumOf(10)>>

\* every series of at most MaxSeries entries, and the example of the
\* specification
SeriesInputs ==
    UNION {[1..n -> DomainValues] : n \in 0..MaxSeries} \cup {Series_1_2_3_4_10}

InitAxisDomain ==
    /\ PageIdle
    /\ FormIdle
    /\ call = "none"
    /\ args \in {[data |-> d] : d \in SeriesInputs}
    /\ result = <<>>
    /\ history = <<>>

ApplyCalculateAxisDomain ==
    /\ call = "none"
    /\ call' = "calculateAxisDomain"
    /\ result' = calculateAxisDomain(args.data)
    /\ UNCHANGED <<args, now, history>>
    /\ UNCHANGED <<pageVars, formVars>>

SpecAxisDomain == InitAxisDomain /\ [][ApplyCalculateAxisDomain]_vars

\* the values that remain: the entries that are numbers and not NaN
Remaining(data) == {data[i] : i \in {j \in 1..Len(data) : data[j].k \in {"fin", "inf"}}}

Lowest(xs) == CHOOSE x \in xs : \A y \in xs : LessEq(x, y)
Highest(xs) == CHOOSE x \in xs : \A y \in xs : LessEq(y, x)

\* C8: calculateAxisDomain returns [0, 100] when no valid value remains,
\* [0.9 v, 1.1 v] when all remaining values equal v, and otherwise
\* [min - p, max + p] with p = 0.05 (max - min); [5, 5, 5] gives
\* [4.5, 5.5] and [1, 2, 3, 4, 10] gives [0.55, 10.45].
C8_DomainByCases ==
    call = "calculateAxisDomain" =>
        LET xs == Remaining(args.data)
            p == Times(Minus(Highest(xs), Lowest(xs)), 5, 100)
        IN  /\ xs = {} => result = <<Fin(0), Fin(100 * Scale)>>
            /\ Cardinality(xs) = 1 =>
                  result = <<Times(Lowest(xs), 9, 10), Times(Lowest(xs), 11, 10)>>
            /\ Cardinality(xs) > 1 =>
                  result = <<Minus(Lowest(xs), p), Plus(Highest(xs), p)>>
            /\ args.data = <<NumOf(5), NumOf(5), NumOf(5)>> => result = <<Fin(45000), Fin(55000)>>
            /\ args.data = Series_1_2_3_4_10 => result = <<Fin(5500), Fin(104500)>>

\* C8 witness: calculateAxisDomain([1, 2, 3, 4, 10]) has returned
\* [0.55, 10.45].
C8_Witness ==
    /\ call = "calculateAxisDomain"
    /\ args.data = Series_1_2_3_4_10
    /\ Cardinality(Remaining(args.data)) > 1
    /\ result = <<Fin(5500), Fin(104500)>>

\* C9 (as claimed): for every input series, flat series of 0 or of a
\* negative value included, the returned domain has low < high (stated
\* here for the series without infinite entries).
C9_LowBelowHigh ==
    (/\ call = "calculateAxisDomain"
     /\ \A i \in 1..Len(args.data) : args.data[i].k # "inf") =>
        Less(result[1], result[2])

\* C10 (as claimed): every non-finite entry and every undefined entry is
\* discarded before min and max are taken, so both bounds of the returned
\* domain are finite for every input.
C10_BoundsFinite ==
    call = "calculateAxisDomain" => result[1].k = "fin" /\ result[2].k = "fin"

-----------------------------------------------------------------------------
(* Alert Zone Classifier: claim C11 (specification SpecAlertZone) *)

\* a >= b on numbers; false when either is NaN or undefined
GreaterEq(a, b) == LessEq(b, a)

getAlertZoneExclusive(waterLevel, dam) ==
    IF Less(parseFloat(dam.redLevel), waterLevel) THEN "red"
    ELSE IF Less(parseFloat(dam.orangeLevel), waterLevel) THEN "orange"
    ELSE IF Less(parseFloat(dam.blueLevel), waterLevel) THEN "blue"
    ELSE "normal"

getAlertZone(waterLevel, dam) ==
    IF GreaterEq(waterLevel, parseFloat(dam.redLevel)) THEN "red"
    ELSE IF GreaterEq(waterLevel, parseFloat(dam.orangeLevel)) THEN "orange"
    ELSE IF GreaterEq(waterLevel, parseFloat(dam.blueLevel)) THEN "blue"
    ELSE "normal"

Str_580 == <<"5", "8", "0">>
Str_575 == <<"5", "7", "5">>
Str_570 == <<"5", "7", "0">>
Str_575_5 == <<"5", "7", "5", ".", "5">>

\* the threshold fields of the dam record: numerals, a missing field, text
ThresholdStrings == {Str_580, Str_575, Str_570, Str_575_5, Undefined, Str_bad}

\* the levels parseFloat(currentData.waterLevel) hands over: values on,
\* just under and between the thresholds, NaN and the infinities
LevelValues ==
    { NumOf(560), NumOf(570), NumOf(571), NumOf(575), NumOf(576), NumOf(580), NumOf(581),
      Fin(580 * Scale - 1), Fin(575 * Scale + 5000), NaN, Inf(1), Inf(-1) }

AlertZoneArgs ==
    {[waterLevel |-> l, damData |-> [redLevel |-> r, orangeLevel |-> o, blueLevel |-> b]] :
        l \in LevelValues, r \in ThresholdStrings, o \in ThresholdStrings, b \in ThresholdStrings}

InitAlertZone ==
    /\ PageIdle
    /\ FormIdle
    /\ call = "none"
    /\ args \in AlertZoneArgs
    /\ result = <<>>
    /\ history = <<>>

ApplyGetAlertZone ==
    /\ call = "none"
    /\ call' = "getAlertZone"
    /\ result' = getAlertZone(args.waterLevel, args.damData)
    /\ UNCHANGED <<args, now, history>>
    /\ UNCHANGED <<pageVars, formVars>>

SpecAlertZone == InitAlertZone /\ [][ApplyGetAlertZone]_vars

\* the number a threshold field holds, NaN when it holds none
ThresholdOf(s) == IF IsNumeral(s) THEN Fin(ValueOfNumeral(s)) ELSE NaN

\* level >= threshold: both are numbers and the level is not below
Reaches(level, s) ==
    /\ level.k \in {"fin", "inf"}
    /\ ThresholdOf(s).k = "fin"
    /\ ~Less(level, ThresholdOf(s))

Thresholds_580_575_570 == [redLevel |-> Str_580, orangeLevel |-> Str_575, blueLevel |-> Str_570]

\* C11: getAlertZone returns red when level >= redLevel, else orange when
\* level >= orangeLevel, else blue when level >= blueLevel, else normal,
\* each threshold inclusive; for red 580, orange 575, blue 570 the levels
\* 581 and 580 give red, 576 orange, 571 blue, 560 normal.
C11_ZoneByInclusiveThresholds ==
    call = "getAlertZone" =>
        LET level == args.waterLevel
            dam == args.damData
        IN  /\ (result = "red") <=> Reaches(level, dam.redLevel)
            /\ (result = "orange") <=>
                  (~Reaches(level, dam.redLevel) /\ Reaches(level, dam.orangeLevel))
            /\ (result = "blue") <=>
                  (/\ ~Reaches(level, dam.redLevel)
                   /\ ~Reaches(level, dam.orangeLevel)
                   /\ Reaches(level, dam.blueLevel))
            /\ (result = "normal") <=>
                  (/\ ~Reaches(level, dam.redLevel)
                   /\ ~Reaches(level, dam.orangeLevel)
                   /\ ~Reaches(level, dam.blueLevel))
            /\ dam = Thresholds_580_575_570 =>
                  /\ level \in {NumOf(581), NumOf(580)} => result = "red"
                  /\ level \in {NumOf(576), NumOf(575)} => result = "orange"
                  /\ level \in {NumOf(571), NumOf(570)} => result = "blue"
                  /\ level = NumOf(560) => result = "normal"

\* C11 witness: with red 580, orange 575, blue 570 the boundary level 580
\* has been classified red.
C11_Witness ==
    /\ call = "getAlertZone"
    /\ args.damData = Thresholds_580_575_570
    /\ args.waterLevel = NumOf(580)
    /\ result = "red"

-----------------------------------------------------------------------------
(* Trend Estimator: exact arithmetic for calculateWaterLevelTrend.          *)
(* A number is [k, n, d]: k = "fin" with value n / d in lowest terms and   *)
(* d > 0, k = "inf" with n the sign, k = "nan", k = "undef" for a key the  *)
(* returned object does not have. Rounding of IEEE doubles and the sign of *)
(* zero are not represented.                                               *)

Abs(x) == IF x < 0 THEN 0 - x ELSE x

RECURSIVE Gcd(_, _)
Gcd(a, b) == IF b = 0 THEN a ELSE Gcd(b, a % b)

Q(n, d) ==
    LET g == Gcd(Abs(n), Abs(d))
    IN  IF d < 0 THEN [k |-> "fin", n |-> (0 - n) \div g, d |-> (0 - d) \div g]
        ELSE [k |-> "fin", n |-> n \div g, d |-> d \div g]

QInf(sign) == [k |-> "inf", n |-> sign, d |-> 1]
QNaN == [k |-> "nan", n |-> 0, d |-> 1]
QUndef == [k |-> "undef", n |-> 0, d |-> 1]

\* the number parseFloat returned
FromNumber(x) ==
    IF x.k = "fin" THEN Q(x.v, Scale)
    ELSE IF x.k = "inf" THEN QInf(x.v)
    ELSE QNaN

QSign(a) == IF a.n > 0 THEN 1 ELSE IF a.n < 0 THEN -1 ELSE 0

\* a || b on numbers: NaN and 0 are falsy
OrElse(a, b) == IF a.k = "nan" \/ (a.k = "fin" /\ a.n = 0) THEN b ELSE a

QNegate(a) == IF a.k \in {"fin", "inf"} THEN [k |-> a.k, n |-> 0 - a.n, d |-> a.d] ELSE QNaN

QPlus(a, b) ==
    IF a.k = "fin" /\ b.k = "fin" THEN Q(a.n * b.d + b.n * a.d, a.d * b.d)
    ELSE IF a.k = "inf" /\ b.k = "fin" THEN a
    ELSE IF a.k = "fin" /\ b.k = "inf" THEN b
    ELSE IF a.k = "inf" /\ b.k = "inf" /\ a.n = b.n THEN a
    ELSE QNaN

QMinus(a, b) == QPlus(a, QNegate(b))

QTimes(a, b) ==
    IF a.k = "fin" /\ b.k = "fin"
    THEN LET g1 == Gcd(Abs(a.n), b.d)
             g2 == Gcd(Abs(b.n), a.d)
         IN  Q((a.n \div g1) * (b.n \div g2), (a.d \div g2) * (b.d \div g1))
    ELSE IF a.k \in {"fin", "inf"} /\ b.k \in {"fin", "inf"} /\ QSign(a) * QSign(b) # 0
    THEN QInf(QSign(a) * QSign(b))
    ELSE QNaN

QDiv(a, b) ==
    IF a.k = "fin" /\ b.k = "fin"
    THEN IF b.n # 0 THEN QTimes(a, Q(b.d, b.n))
         ELSE IF a.n = 0 THEN QNaN ELSE QInf(QSign(a))
    ELSE IF a.k = "fin" /\ b.k = "inf" THEN Q(0, 1)
    ELSE IF a.k = "inf" /\ b.k = "fin" THEN QInf(IF b.n < 0 THEN 0 - a.n ELSE a.n)
    ELSE QNaN

\* Math.abs
QAbs(a) == IF a.k \in {"fin", "inf"} THEN [k |-> a.k, n |-> Abs(a.n), d |-> a.d] ELSE a

\* a > b; false when either is NaN
QGreater(a, b) ==
    /\ a.k \in {"fin", "inf"} /\ b.k \in {"fin", "inf"}
    /\ \/ a.k = "fin" /\ b.k = "fin" /\ a.n * b.d > b.n * a.d
       \/ a.k = "inf" /\ a.n > 0 /\ b.k = "fin"
       \/ a.k = "fin" /\ b.k = "inf" /\ b.n < 0
       \/ a.k = "inf" /\ b.k = "inf" /\ a.n > b.n

-----------------------------------------------------------------------------
(* calculateWaterLevelTrend(currentData, damData, recentData); damData is  *)
(* not read. currentData is [nul, inflow, totalOutflow, waterLevel],       *)
(* recentData is [def, items] with items [nul, waterLevel].                *)

TrendOf(hourlyChangeFeet, hourlyChangeInches, trend, confidence, netFlow) ==
    [k |-> "ok", hourlyChange |-> hourlyChangeFeet, hourlyChangeInches |-> hourlyChangeInches,
     trend |-> trend, confidence |-> confidence, netFlow |-> netFlow]

\* a TypeError raised inside the function
TrendThrown ==
    [k |-> "throw", hourlyChange |-> QUndef, hourlyChangeInches |-> QUndef,
     trend |-> "", confidence |-> "", netFlow |-> QUndef]

surfaceAreaAcresAtConservationPool(currentLevel) == Q(22000, 1)

surfaceAreaAcres(currentLevel) ==
    QPlus(Q(22000, 1),
          QTimes(QDiv(QMinus(currentLevel, Q(552, 1)), QMinus(Q(580, 1), Q(552, 1))),
                 Q(2000, 1)))

flowTrendLowThresholds(hourlyChangeFeet) ==
    IF QGreater(QAbs(hourlyChangeFeet), Q(1, 200))
    THEN [trend |-> IF QGreater(hourlyChangeFeet, Q(0, 1)) THEN "rising" ELSE "falling",
          confidence |-> "high"]
    ELSE IF QGreater(QAbs(hourlyChangeFeet), Q(1, 400))
    THEN [trend |-> IF QGreater(hourlyChangeFeet, Q(0, 1)) THEN "rising" ELSE "falling",
          confidence |-> "medium"]
    ELSE [trend |-> "stable", confidence |-> "low"]

\* lines 66 - 77: trend and confidence from the flow estimate
flowTrend(hourlyChangeFeet) ==
    IF QGreater(QAbs(hourlyChangeFeet), Q(1, 100))
    THEN [trend |-> IF QGreater(hourlyChangeFeet, Q(0, 1)) THEN "rising" ELSE "falling",
          confidence |-> "high"]
    ELSE IF QGreater(QAbs(hourlyChangeFeet), Q(1, 200))
    THEN [trend |-> IF QGreater(hourlyChangeFeet, Q(0, 1)) THEN "rising" ELSE "falling",
          confidence |-> "medium"]
    ELSE [trend |-> "stable", confidence |-> "low"]

(* The levels of the recent samples are decimal fractions with no exact     *)
(* double: parseFloat returns the nearest double, and the difference of two  *)
(* such doubles of the same binade is exact, so it differs from the        *)
(* difference of the decimals by the two representation errors. For x =    *)
(* n / d >= 1 in the binade 2^e the error of the nearest double is         *)
(* DoubleError(x) / d units in the last place (2^(e - 52)). Outside that   *)
(* case the difference is taken as exact.                                  *)
RECURSIVE Log2Floor(_)
Log2Floor(m) == IF m <= 1 THEN 0 ELSE 1 + Log2Floor(m \div 2)

RECURSIVE PowerOfTwoMod(_, _)
PowerOfTwoMod(p, d) == IF p = 0 THEN 1 % d ELSE (2 * PowerOfTwoMod(p - 1, d)) % d

DoubleError(x) ==
    LET p == 52 - Log2Floor(x.n \div x.d)
        r == ((x.n % x.d) * PowerOfTwoMod(p, x.d)) % x.d
    IN  IF 2 * r < x.d THEN 0 - r ELSE x.d - r

SameBinade(a, b) ==
    /\ a.k = "fin" /\ b.k = "fin"
    /\ a.n >= a.d /\ b.n >= b.d
    /\ Log2Floor(a.n \div a.d) = Log2Floor(b.n \div b.d)

\* the sign of (the double a - b) - (the exact a - b)
RoundingOfDifference(a, b) ==
    IF SameBinade(a, b)
    THEN LET e == DoubleError(a) * b.d - DoubleError(b) * a.d
         IN  IF e > 0 THEN 1 ELSE IF e < 0 THEN -1 ELSE 0
    ELSE 0

\* Math.abs(x) > bound for the double x = exact + rounding
AbsGreater(exact, rounding, bound) ==
    \/ QGreater(QAbs(exact), bound)
    \/ QAbs(exact) = bound /\ rounding * QSign(exact) > 0

\* lines 80 - 88: the override by the first three recent samples
recentTrend(flow, recentData) ==
    IF recentData.def /\ Len(recentData.items) >= 3
    THEN LET recent3Hours == [i \in 1..3 |-> FromNumber(parseFloat(recentData.items[i].waterLevel))]
             levelTrend == QMinus(recent3Hours[1], recent3Hours[3])
             rounding == RoundingOfDifference(recent3Hours[1], recent3Hours[3])
         IN  IF AbsGreater(levelTrend, rounding, Q(1, 20))
             THEN [trend |-> IF QGreater(levelTrend, Q(0, 1)) THEN "rising" ELSE "falling",
                   confidence |-> "high"]
             ELSE flow
    ELSE flow

calculateWaterLevelTrend(currentData, dam, recentData) ==
    IF currentData.nul
    THEN TrendOf(Q(0, 1), QUndef, "stable", "low", QUndef)
    ELSE LET inflow == OrElse(FromNumber(parseFloat(currentData.inflow)), Q(0, 1))
             outflow == OrElse(FromNumber(parseFloat(currentData.totalOutflow)), Q(0, 1))
             netFlow == QMinus(inflow, outflow)
             currentLevel == OrElse(FromNumber(parseFloat(currentData.waterLevel)), Q(552, 1))
             cubicFeetPerHour == QTimes(netFlow, Q(3600, 1))
             surfaceAreaSqFt == QTimes(surfaceAreaAcres(currentLevel), Q(43560, 1))
             hourlyChangeFeet == QDiv(cubicFeetPerHour, surfaceAreaSqFt)
             final == recentTrend(flowTrend(hourlyChangeFeet), recentData)
         IN  \* d.waterLevel of a null entry among the first three raises a TypeError
             IF /\ recentData.def /\ Len(recentData.items) >= 3
                /\ \E i \in 1..3 : recentData.items[i].nul
             THEN TrendThrown
             ELSE TrendOf(hourlyChangeFeet, QTimes(hourlyChangeFeet, Q(12, 1)),
                          final.trend, final.confidence, netFlow)

-----------------------------------------------------------------------------
(* Trend Estimator: claims C12 - C15 (specification SpecTrend) *)

MaxRecent == 3

Str_0 == <<"0">>
Str_900 == <<"9", "0", "0">>
Str_1000 == <<"1", "0", "0", "0">>
Str_1_234 == <<"1", ",", "2", "3", "4">>
Str_1391_5 == <<"1", "3", "9", "1", ".", "5">>
Str_2000 == <<"2", "0", "0", "0">>
Str_2783 == <<"2", "7", "8", "3">>
Str_3000 == <<"3", "0", "0", "0">>
Str_216 == <<"2", "1", "6">>
Str_244 == <<"2", "4", "4">>
Str_552 == <<"5", "5", "2">>
Str_566 == <<"5", "6", "6">>
Str_566_00 == <<"5", "6", "6", ".", "0", "0">>
Str_566_05 == <<"5", "6", "6", ".", "0", "5">>
Str_566_10 == <<"5", "6", "6", ".", "1", "0">>

\* flows in CFS as the feed gives them: missing, text, comma-grouped, and
\* values that put the hourly change at level 566 under, on and over 0.005
\* and 0.01 ft (1391.5 and 2783 CFS are the thresholds themselves)
InflowStrings ==
    {Undefined, Str_bad, Str_0, Str_1000, Str_1_234, Str_1391_5, Str_2000, Str_2783, Str_3000,
     Str_Infinity}
OutflowStrings == {Undefined, Str_0, Str_900, Str_1_234, Str_2783, Str_3000}

\* levels: missing, 0, the two reference levels, between them, and the
\* levels at which the interpolated area is zero (244) and negative (216)
LevelStrings == {Undefined, Str_0, Str_216, Str_244, Str_552, Str_566, Str_580}

NoCurrentData == [nul |-> TRUE, inflow |-> Undefined, totalOutflow |-> Undefined,
                  waterLevel |-> Undefined]
Current(inflow, outflow, level) ==
    [nul |-> FALSE, inflow |-> inflow, totalOutflow |-> outflow, waterLevel |-> level]

CurrentDataValues ==
    {NoCurrentData} \cup
    {Current(i, o, l) : i \in InflowStrings, o \in OutflowStrings, l \in LevelStrings}

\* one current record per flow classification, for the runs over every
\* recent-sample sequence
CurrentDataSamples ==
    { NoCurrentData, Current(Str_1000, Str_900, Str_566), Current(Str_3000, Str_0, Str_566),
      Current(Str_0, Str_3000, Str_566), Current(Str_2000, Str_0, Str_566) }

NoRecentData == [def |-> FALSE, items |-> <<>>]
Recent(items) == [def |-> TRUE, items |-> items]
Sample(level) == [nul |-> FALSE, waterLevel |-> level]
NullSample == [nul |-> TRUE, waterLevel |-> Undefined]

\* recent samples: a null entry, a sample without level, and levels 0.05 ft
\* and 0.10 ft apart
SamplePool == {NullSample, Sample(Undefined), Sample(Str_566_00), Sample(Str_566_05),
               Sample(Str_566_10)}

RecentSeqs == UNION {[1..n -> SamplePool] : n \in 0..MaxRecent}

\* four samples, the decisive ones first
RecentFour == <<Sample(Str_566_10), Sample(Str_566_05), Sample(Str_566_00), NullSample>>

RecentDataValues == {NoRecentData, Recent(RecentFour)} \cup {Recent(r) : r \in RecentSeqs}

TrendArgs ==
    {[currentData |-> c, recentData |-> r] :
        c \in CurrentDataValues, r \in {NoRecentData, Recent(<<>>), Recent(RecentFour)}}
    \cup {[currentData |-> c, recentData |-> r] :
            c \in CurrentDataSamples, r \in RecentDataValues}

InitTrend ==
    /\ PageIdle
    /\ FormIdle
    /\ call = "none"
    /\ args \in TrendArgs
    /\ result = <<>>
    /\ history = <<>>

ApplyCalculateWaterLevelTrend ==
    /\ call = "none"
    /\ call' = "calculateWaterLevelTrend"
    /\ result' = calculateWaterLevelTrend(args.currentData, NoDamData, args.recentData)
    /\ UNCHANGED <<args, now, history>>
    /\ UNCHANGED <<pageVars, formVars>>

SpecTrend == InitTrend /\ [][ApplyCalculateWaterLevelTrend]_vars

\* the function ran on a current record and returned
TrendComputed == call = "calculateWaterLevelTrend" /\ ~args.currentData.nul /\ result.k = "ok"

\* the Numeric Coercer's reading of a flow field
Coerced(s) == FromNumber(parseNumber(s))

\* C12 (as claimed): netFlow = coerce(inflow) - coerce(totalOutflow), coerce
\* being the Numeric Coercer: 0 for a missing or malformed field, the full
\* value for a comma-grouped one such as "1,234".
C12_NetFlowOfCoercedFlows ==
    TrendComputed =>
        result.netFlow = QMinus(Coerced(args.currentData.inflow),
                                Coerced(args.currentData.totalOutflow))

\* the value of a level field that holds a numeral
LevelOf(s) == Q(ValueOfNumeral(s), Scale)

\* (netFlow * 3600) / (acres * 43560) with acres on the line through
\* (552, 22000) and (580, 24000): acres = (500 level - 122000) / 7, and the
\* quotient is 7 netFlow / (6050 level - 1476200)
OnTheLine(netFlow, level) ==
    Q(7 * netFlow.n * level.d, netFlow.d * (6050 * level.n - 1476200 * level.d))

AreaIsZero(level) == 6050 * level.n = 1476200 * level.d

TwelveTimes(inches, feet) ==
    \/ feet.k = "fin" /\ inches = Q(12 * feet.n, feet.d)
    \/ feet.k # "fin" /\ inches = feet

LevelUsed(s) == IF IsNumeral(s) /\ ValueOfNumeral(s) # 0 THEN LevelOf(s) ELSE Q(552, 1)

WithoutRecentSamples == ~args.recentData.def \/ Len(args.recentData.items) < 3

\* |x| > p / q for the rate x
Exceeds(x, p, q) ==
    \/ x.k = "inf"
    \/ x.k = "fin" /\ q * Abs(x.n) > p * x.d

Direction(x) == IF x.n > 0 THEN "rising" ELSE "falling"

\* C14: without recent samples, |hourlyChangeFeet| above 0.01 gives
\* confidence high with trend rising (positive) or falling (negative); above
\* 0.005 and at most 0.01 gives medium with rising/falling; otherwise
\* trend stable with confidence low. For inflow 1000, outflow 900, level 566
\* the net flow is 100, the rate is positive and below 0.01, confidence low.
C14_ClassifiedByMagnitude ==
    (call = "calculateWaterLevelTrend" /\ WithoutRecentSamples) =>
        LET x == result.hourlyChange
        IN  /\ Exceeds(x, 1, 100) =>
                  result.confidence = "high" /\ result.trend = Direction(x)
            /\ (Exceeds(x, 1, 200) /\ ~Exceeds(x, 1, 100)) =>
                  result.confidence = "medium" /\ result.trend = Direction(x)
            /\ ~Exceeds(x, 1, 200) =>
                  result.confidence = "low" /\ result.trend = "stable"
            /\ args.currentData = Current(Str_1000, Str_900, Str_566) =>
                  /\ result.netFlow = Q(100, 1)
                  /\ x.k = "fin" /\ x.n > 0 /\ ~Exceeds(x, 1, 100)
                  /\ result.confidence = "low"

\* C14 witness: a net flow of 2783 CFS at level 566 gives exactly 0.01 ft
\* per hour, which is not above 0.01: rising with confidence medium.
C14_Witness ==
    /\ call = "calculateWaterLevelTrend" /\ WithoutRecentSamples
    /\ args.currentData = Current(Str_2783, Str_0, Str_566)
    /\ result.hourlyChange = Q(1, 100)
    /\ result.trend = "rising" /\ result.confidence = "medium"

\* the recent samples the override reads: the first three, none of them null
ThreeSamples ==
    /\ args.recentData.def
    /\ Len(args.recentData.items) >= 3
    /\ \A i \in 1..3 : ~args.recentData.items[i].nul

\* latest level minus the level two samples earlier, in units of 1 / Scale;
\* recentData[0] is the latest sample
ObservedChange ==
    ValueOfNumeral(args.recentData.items[1].waterLevel)
        - ValueOfNumeral(args.recentData.items[3].waterLevel)

ChangeObserved ==
    /\ IsNumeral(args.recentData.items[1].waterLevel)
    /\ IsNumeral(args.recentData.items[3].waterLevel)
    /\ 20 * Abs(ObservedChange) > Scale

\* the classification of C14 for the rate x
FlowBased(x) ==
    IF Exceeds(x, 1, 100) THEN <<Direction(x), "high">>
    ELSE IF Exceeds(x, 1, 200) THEN <<Direction(x), "medium">>
    ELSE <<"stable", "low">>

\* C15 (as claimed): with at least 3 recent samples whose level change over the most
\* recent 3 (latest minus the one two samples earlier) exceeds 0.05 ft in
\* magnitude, trend is the sign of that change and confidence is high,
\* whatever the flow says; with fewer than 3 samples, or a change that does
\* not exceed 0.05 ft, trend and confidence are the flow-based ones.
C15_RecentSamplesOverride ==
    (call = "calculateWaterLevelTrend" /\ ~args.currentData.nul) =>
        /\ (ThreeSamples /\ ChangeObserved) =>
              /\ result.k = "ok"
              /\ result.trend = (IF ObservedChange > 0 THEN "rising" ELSE "falling")
              /\ result.confidence = "high"
        /\ (WithoutRecentSamples \/ (ThreeSamples /\ ~ChangeObserved)) =>
              /\ result.k = "ok"
              /\ <<result.trend, result.confidence>> = FlowBased(result.hourlyChange)

-----------------------------------------------------------------------------
(* Determinism of the core functions: claim C16 (specification            *)
(* SpecDeterminism). One function is invoked twice on the same arguments   *)
(* while the clock advances.                                               *)

MaxTicks == 1

\* arguments of the range filter: the record collection, the selected
\* interval, the reference date and the date-fns build
FilterRanges ==
    { NoRange,
      Range(DateAt(At(2024, 3, 1, 0, 0, 0)), DateAt(At(2024, 3, 15, 0, 0, 0))),
      Range(DateAt(At(2024, 3, 1, 0, 0, 0)), UndefinedDate),
      Range(DateAt(At(2024, 3, 16, 0, 0, 0)), DateAt(At(2024, 3, 10, 0, 0, 0))) }

FilterArgs ==
    {[dam |-> DamDataOf(rows), range |-> r,
      reference |-> DateAt(At(2024, 3, 15, 14, 30, 0)), major |-> v] :
        rows \in RecordSeqs, r \in FilterRanges, v \in {2, 3}}

\* the value the function returns when invoked while the clock reads clock
Outcome(fn, a, clock) ==
    CASE fn = "parseDateTime" -> parseDateTime(a.date, a.time, clock)
      [] fn = "parseNumber" -> parseNumber(a.value)
      [] fn = "filteredData" -> filteredDataOf(a.dam, a.range, a.reference, a.major, clock)
      [] fn = "calculateAxisDomain" -> calculateAxisDomain(a.data)
      [] fn = "calculateWaterLevelTrend" ->
            calculateWaterLevelTrend(a.currentData, NoDamData, a.recentData)
      [] fn = "getAlertZone" -> getAlertZone(a.waterLevel, a.damData)

InitDeterminism ==
    /\ PageIdle
    /\ FormIdle
    /\ call = "none"
    /\ \/ \E a \in ParseDateTimeArgs : args = [fn |-> "parseDateTime", a |-> a]
       \/ \E v \in NumberStrings : args = [fn |-> "parseNumber", a |-> [value |-> v]]
       \/ \E a \in FilterArgs : args = [fn |-> "filteredData", a |-> a]
       \/ \E d \in SeriesInputs : args = [fn |-> "calculateAxisDomain", a |-> [data |-> d]]
       \/ \E a \in TrendArgs : args = [fn |-> "calculateWaterLevelTrend", a |-> a]
       \/ \E a \in AlertZoneArgs : args = [fn |-> "getAlertZone", a |-> a]
    /\ result = <<>>
    /\ history = <<>>

\* one invocation on args, the first or a repeated one
Invoke ==
    /\ Len(history) < 2
    /\ call' = args.fn
    /\ result' = Outcome(args.fn, args.a, now)
    /\ history' = Append(history, <<now, result'>>)
    /\ UNCHANGED <<args, now>>
    /\ UNCHANGED <<pageVars, formVars>>

\* time passes
Tick ==
    /\ \E start \in NowValues : now < start + MaxTicks
    /\ now' = now + 1
    /\ UNCHANGED <<call, args, result, history>>
    /\ UNCHANGED <<pageVars, formVars>>

NextDeterminism == Invoke \/ Tick

SpecDeterminism == InitDeterminism /\ [][NextDeterminism]_vars

InvokedTwice == Len(history) = 2

\* C16 (as claimed): two invocations of a core function on identical
\* arguments return identical results, for every input, malformed ones
\* included.
C16_SameArgumentsSameResult ==
    InvokedTwice => history[1][2] = history[2][2]

\* parseDateTime on an empty or missing date string
ReadsTheClock == args.fn = "parseDateTime" /\ Falsy(args.a.date)

\* C16 (amended): two invocations of a core function on identical arguments
\* return identical results, malformed inputs included, except
\* parseDateTime on an empty or missing date string, which returns the
\* clock's reading at each invocation.
C16_SameResultUnlessClockRead ==
    InvokedTwice =>
        IF ReadsTheClock
        THEN \A i \in 1..2 : history[i][2] = DateAt(history[i][1])
        ELSE history[1][2] = history[2][2]

\* C16 witness: parseDateTime("bad") was invoked twice, the clock advancing
\* in between, and returned the same (invalid) date both times.
C16_Witness ==
    /\ InvokedTwice
    /\ args.fn = "parseDateTime" /\ args.a.date = Str_bad
    /\ history[1][1] < history[2][1]
    /\ history[1][2] = history[2][2]

-----------------------------------------------------------------------------
(* The fetched records, the persisted range and the default range:         *)
(* claims C17 - C20 (specification Spec)                                   *)

InFetchedOrder(data) == \A i \in 1..Len(data) : data[i].id = i

\* C17: computing the filtered sequence, the visualization sequence, the
\* reference date and the values derived from them leaves the fetched
\* record sequence unchanged: once fetched it holds the same records, in
\* the same order, with the same field values after every step, interval
\* changes included.
C17_FetchedRecordsUnchanged ==
    [][/\ damData.k = "data" => damData' = damData
       /\ damData'.k = "data" => InFetchedOrder(damData'.data)]_vars

\* C17 witness: after an interval change the filtered sequence lacks a
\* fetched record and lists two records in the opposite of their fetched
\* order, and the fetched sequence is still in its fetched order.
C17_Witness ==
    /\ RangeSelected /\ filteredData.k = "ok" /\ isChangingRange
    /\ Len(filteredData.rows) < Len(damData.data)
    /\ \E i \in 1..(Len(filteredData.rows) - 1) :
          filteredData.rows[i].id > filteredData.rows[i + 1].id
    /\ InFetchedOrder(damData.data)

\* a stored value that is no JSON, or whose from or to is no valid date
Unparseable(entry) ==
    \/ entry.k = "corrupt"
    \/ /\ entry.k = "pair"
       /\ \/ NewDateFromString(entry.from).k # "date"
          \/ NewDateFromString(entry.to).k # "date"

\* C18 (as claimed): a persisted value that is not valid JSON, or whose
\* from/to do not parse to valid dates, is removed from storage by the
\* initialisation: from then on the key never holds such a value.
C18_CorruptValueDiscarded == ~Unparseable(storage)

Str_ISO_2024_03_15 ==
    << "2", "0", "2", "4", "-", "0", "3", "-", "1", "5", "T", "0", "6", ":", "0", "0", ":",
       "0", "0", ".", "0", "0", "0", "Z" >>

\* C19 (as claimed): after handleDateRangeChange with an interval having
\* both from and to, the key holds an ISO-8601 from/to pair from which the
\* initialisation reconstructs the interval that was chosen; after
\* handleDateRangeChange with an interval missing from or to, the key is
\* absent.
C19_ChosenIntervalRoundTrips ==
    [][handleDateRangeChange =>
          IF dateRange'.from.k # "undefined" /\ dateRange'.to.k # "undefined"
          THEN /\ storage'.k = "pair"
               /\ IsISOText(storage'.from) /\ IsISOText(storage'.to)
               /\ dateRange'.to = DateAt(At(2024, 3, 15, 0, 0, 0)) =>
                     storage'.to = Str_ISO_2024_03_15
               /\ InitialDateRange(storage') = dateRange'
          ELSE storage' = NoEntry]_vars

\* C20 (as claimed): the end of the computed default interval is not
\* earlier than the timestamp of any dated record, so the most recent
\* record, an hourly one later than midnight included, lies inside the
\* default interval.
C20_DefaultCoversMostRecent ==
    [][DataLoadEffect =>
          \A j \in 1..Len(damData.data) :
              (HasDate(damData.data[j]) /\ TimestampOf(damData.data[j]).k = "date") =>
                  /\ TimestampOf(damData.data[j]).t <= dateRange'.to.t
                  /\ TimestampOf(damData.data[j]) = referenceDate' =>
                        LET shown == filteredDataOf(damData', dateRange', referenceDate',
                                                    dateFnsMajor, now)
                        IN  \E i \in 1..Len(shown.rows) : shown.rows[i] = damData.data[j]]_vars

-----------------------------------------------------------------------------
(* The current record: claim C21 (specification Spec)                      *)

NoRecord == [k |-> "null", item |-> <<>>]
Record(item) == [k |-> "record", item |-> item]

\* the last element of an array; a null element is null
LastOf(rows) == IF rows[Len(rows)].nul THEN NoRecord ELSE Record(rows[Len(rows)])

\* currentData: the last filtered record, or the last fetched one when the
\* filtered sequence is empty, or null
currentDataOf(filtered, dam) ==
    IF Len(filtered) > 0 THEN LastOf(filtered)
    ELSE IF dam.k = "data" /\ Len(dam.data) > 0 THEN LastOf(dam.data)
    ELSE NoRecord

\* the page renders its cards: the query has resolved and no memo threw
PageShown == damData.k = "data" /\ filteredData.k = "ok"

currentData == currentDataOf(filteredData.rows, damData)

\* the records currentData is taken from
CurrentView == IF Len(filteredData.rows) > 0 THEN filteredData.rows ELSE damData.data

Resolved(item) == HasDate(item) /\ TimestampOf(item).k = "date"

\* C21 (as claimed): the record classified into an alert zone is the most
\* recent one: among the records of the current view it has the maximum
\* resolved timestamp, when the filtered sequence is non-empty and when the
\* fallback to the fetched sequence is used.
C21_CurrentIsMostRecent ==
    (PageShown /\ \E j \in 1..Len(CurrentView) : Resolved(CurrentView[j])) =>
        /\ currentData.k = "record"
        /\ Resolved(currentData.item)
        /\ \A j \in 1..Len(CurrentView) :
              Resolved(CurrentView[j]) =>
                  TimestampOf(CurrentView[j]).t <= TimestampOf(currentData.item).t

-----------------------------------------------------------------------------
(* Null and missing inputs: claim C22 (specification SpecTrend)            *)

\* C22 (as claimed): with a missing current record, or null entries inside
\* the recent-sample sequence, calculateWaterLevelTrend never raises, and
\* for a missing current record it returns a stable trend of low
\* confidence with no change.
C22_NullInputsNeverRaise ==
    call = "calculateWaterLevelTrend" =>
        /\ result.k = "ok"
        /\ args.currentData.nul =>
              /\ result.hourlyChange = Q(0, 1)
              /\ result.trend = "stable"
              /\ result.confidence = "low"

-----------------------------------------------------------------------------
(* The restored interval and the data-load effect: claim C23               *)
(* (specification Spec)                                                    *)

\* C23 (as claimed): an interval that is active when the record collection
\* finishes loading (the valid persisted interval restored at
\* initialisation, or one the user chose) is still the active filtering
\* interval after the data-load effect: the effect does not replace it with
\* the default.
C23_ActiveIntervalSurvivesLoad ==
    [][(DataLoadEffect /\ dateRange.def) => dateRange' = dateRange]_vars

-----------------------------------------------------------------------------
(* The Visualization component: claim C24 (specification                   *)
(* SpecVisualization). args holds the data prop, visualizationIndex is the *)
(* currentIndex prop and onIndexChange is setVisualizationIndex; call is   *)
(* the handler that ran last and result what it read and emitted.          *)

MaxData == 3

\* Math.min and Math.max of two numbers: NaN when either is NaN
MathMin2(a, b) ==
    IF a.k \notin {"fin", "inf"} \/ b.k \notin {"fin", "inf"} THEN NaN
    ELSE IF Less(b, a) THEN b ELSE a

MathMax2(a, b) ==
    IF a.k \notin {"fin", "inf"} \/ b.k \notin {"fin", "inf"} THEN NaN
    ELSE IF Less(a, b) THEN b ELSE a

\* Math.round: the nearest integer, halves towards +Infinity
MathRound(a) ==
    IF a.k = "fin" THEN Fin(((a.v + Scale \div 2) \div Scale) * Scale)
    ELSE IF a.k = "inf" THEN a
    ELSE NaN

\* format(date, 'dd.MM.yyyy') of a valid Date
format_dd_MM_yyyy(date) ==
    Pad2(getDate(date)) \o <<".">> \o Pad2(getMonth(date) + 1) \o <<".">>
        \o Pad4(getFullYear(date))

\* data.filter(item => item && typeof item === 'object' && item.date)
validDataOf(data) == SelectSeq(data, HasDate)

safeCurrentIndex(currentIndex, valid) ==
    MathMax2(NumOf(0), MathMin2(currentIndex, NumOf(Len(valid) - 1)))

\* onIndexChange was not called
Nothing == [k |-> "nothing", v |-> 0]

handleSliderChangeEmits(value, valid) ==
    LET newIndex == MathRound(value)
    IN  IF LessEq(NumOf(0), newIndex) /\ Less(newIndex, NumOf(Len(valid)))
        THEN newIndex ELSE Nothing

handlePreviousEmits(safe, valid) ==
    IF Less(NumOf(0), safe) THEN Minus(safe, NumOf(1)) ELSE Nothing

handleNextEmits(safe, valid) ==
    IF Less(safe, NumOf(Len(valid) - 1)) THEN Plus(safe, NumOf(1)) ELSE Nothing

\* Array.prototype.findIndex, 0-based, -1 when no element passes; passes is
\* the callback's verdict on each element, in order
findIndex(passes) ==
    LET hits == {i \in 1..Len(passes) : passes[i]}
    IN  IF hits = {} THEN -1 ELSE (CHOOSE i \in hits : \A j \in hits : i <= j) - 1

isHourlyData(valid) == \E i \in 1..Len(valid) : ~Falsy(valid[i].time)

\* format throws a RangeError on an Invalid Date: nothing is emitted
handleDateSelectEmits(date, valid) ==
    IF date.k = "undefined" \/ Len(valid) = 0 THEN Nothing
    ELSE IF date.k # "date" THEN Nothing
    ELSE LET targetDate == format_dd_MM_yyyy(date)
             dayEntries == SelectSeq(valid, LAMBDA item : item.date = targetDate)
             newIndex ==
                 IF isHourlyData(valid)
                 THEN IF Len(dayEntries) > 0
                      THEN findIndex([i \in 1..Len(valid) |->
                                         valid[i].id = dayEntries[Len(dayEntries)].id])
                      ELSE -1
                 ELSE findIndex([i \in 1..Len(valid) |-> valid[i].date = targetDate])
         IN  IF newIndex # -1 THEN NumOf(newIndex) ELSE Nothing

Str_14_03_2024 == <<"1", "4", ".", "0", "3", ".", "2", "0", "2", "4">>
Str_09_00 == <<"0", "9", ":", "0", "0">>

\* the data prop: daily and hourly records in ascending order, with a null
\* entry and a dateless record among them
VisualizationPool ==
    { [nul |-> TRUE, date |-> Undefined, time |-> Undefined],
      Rec(Undefined, Undefined),
      Rec(Str_15_09_2023, Undefined),
      Rec(Str_14_03_2024, Undefined),
      Rec(Str_15_03_2024, Str_09_00),
      Rec(Str_15_03_2024, Str_14_30) }

VisualizationData ==
    {WithIds(rows) : rows \in UNION {[1..n -> VisualizationPool] : n \in 1..MaxData}}

\* the currentIndex prop: in range, out of range, fractional, not a number
IncomingIndices ==
    {NumOf(n) : n \in -1..(MaxData + 1)} \cup {Fin((3 * Scale) \div 2), NaN, Inf(1), Inf(-1)}

\* the slider's value[0], in halves, or not a number
SliderValues == {Fin(n * (Scale \div 2)) : n \in -2..(2 * MaxData + 1)} \cup {NaN}

\* what the calendar hands to onSelect
SelectableDates ==
    { UndefinedDate, InvalidDate, DateAt(At(2024, 3, 15, 0, 0, 0)),
      DateAt(At(2024, 3, 14, 0, 0, 0)), DateAt(At(2024, 3, 13, 0, 0, 0)) }

InitVisualization ==
    /\ damData = NoDamData
    /\ dateRange = NoRange
    /\ storage = NoEntry
    /\ now \in NowValues
    /\ referenceDate = DateAt(now)
    /\ effectPending = FALSE
    /\ isChangingRange = FALSE
    /\ dateFnsMajor = 3
    /\ visualizationIndex \in IncomingIndices
    /\ FormIdle
    /\ call = "none"
    /\ \E data \in VisualizationData :
          /\ Len(validDataOf(data)) > 0
          /\ args = [data |-> data]
    /\ result = <<>>
    /\ history = <<>>

\* a handler ran: what it read and what it passed to onIndexChange, which
\* sets the parent's index
Handled(name, emitted) ==
    /\ call' = name
    /\ result' = [currentIndex |-> visualizationIndex,
                  safeCurrentIndex |->
                      safeCurrentIndex(visualizationIndex, validDataOf(args.data)),
                  emitted |-> emitted]
    /\ visualizationIndex' = IF emitted = Nothing THEN visualizationIndex ELSE emitted
    /\ UNCHANGED <<damData, dateRange, referenceDate, effectPending, storage, isChangingRange,
                   dateFnsMajor, now, args, history>>
    /\ UNCHANGED formVars

handleSliderChange ==
    \E value \in SliderValues :
        Handled("handleSliderChange", handleSliderChangeEmits(value, validDataOf(args.data)))

handlePrevious ==
    Handled("handlePrevious",
            handlePreviousEmits(safeCurrentIndex(visualizationIndex, validDataOf(args.data)),
                                validDataOf(args.data)))

handleNext ==
    Handled("handleNext",
            handleNextEmits(safeCurrentIndex(visualizationIndex, validDataOf(args.data)),
                            validDataOf(args.data)))

handleDateSelect ==
    \E date \in SelectableDates :
        Handled("handleDateSelect", handleDateSelectEmits(date, validDataOf(args.data)))

NextVisualization ==
    \/ handleSliderChange
    \/ handlePrevious
    \/ handleNext
    \/ handleDateSelect

SpecVisualization == InitVisualization /\ [][NextVisualization]_vars

\* the number lies in [0, length - 1]
WithinBounds(n) ==
    LessEq(NumOf(0), n) /\ LessEq(n, NumOf(Len(validDataOf(args.data)) - 1))

VisualizationHandlers ==
    {"handleSliderChange", "handlePrevious", "handleNext", "handleDateSelect"}

-----------------------------------------------------------------------------
(* Reference date, visualization sequence and index: claim C25             *)
(* (specification Spec)                                                    *)

\* the same calendar day and time of day n years earlier; 29 February
\* becomes 28 February in a year that has none
YearsBefore(date, n) ==
    LET civil == CivilFromDays(DayOf(date.t))
        day == IF civil.m = 2 /\ civil.d = 29 /\ ~IsLeapYear(civil.y - n) THEN 28
               ELSE civil.d
    IN  DaysFromCivil(civil.y - n, civil.m, day) * SecPerDay + (date.t % SecPerDay)

\* the data-load effect has run on a collection with a resolvable record
Loaded ==
    /\ damData.k = "data" /\ ~effectPending
    /\ \E j \in 1..Len(damData.data) : Resolved(damData.data[j])

InVisualization(item) ==
    \E i \in 1..Len(visualizationData) : visualizationData[i] = item

\* C25: after data load, referenceDate is the maximum resolved timestamp
\* over the dated records; the visualization sequence holds exactly the
\* dated records with timestamp in [referenceDate - 2 years, referenceDate],
\* in ascending order; and the visualization index is that of the last
\* element whenever the sequence has become a non-empty one.
C25_ReferenceDateAndVisualization ==
    /\ Loaded =>
          /\ referenceDate.k = "date"
          /\ \A j \in 1..Len(damData.data) :
                Resolved(damData.data[j]) => TimestampOf(damData.data[j]).t <= referenceDate.t
          /\ \E j \in 1..Len(damData.data) :
                Resolved(damData.data[j]) /\ TimestampOf(damData.data[j]) = referenceDate
          /\ \A j \in 1..Len(damData.data) :
                InVisualization(damData.data[j]) <=>
                    /\ Resolved(damData.data[j])
                    /\ YearsBefore(referenceDate, 2) <= TimestampOf(damData.data[j]).t
                    /\ TimestampOf(damData.data[j]).t <= referenceDate.t
          /\ Len(visualizationData) <= Len(damData.data)
          /\ Sorted(visualizationData)
    /\ (damData.k = "data" /\ Len(visualizationData) > 0) =>
          visualizationIndex = NumOf(Len(visualizationData) - 1)

\* C25 witness: after the effect the visualization sequence holds the most
\* recent record and the one exactly two years older, not the record a day
\* older than that, and the index points at the most recent record.
C25_Witness ==
    /\ Loaded
    /\ Len(damData.data) = 3
    /\ Len(visualizationData) = 2
    /\ TimestampOf(visualizationData[1]).t = YearsBefore(referenceDate, 2)
    /\ TimestampOf(visualizationData[2]) = referenceDate
    /\ visualizationIndex = NumOf(1)

-----------------------------------------------------------------------------
(* The sign of the predicted change: claim C26 (specification SpecTrend)   *)

\* C26 (as claimed): for every current water level the sign of
\* hourlyChangeFeet equals the sign of netFlow, so without recent samples a
\* positive net flow is never reported as falling and a negative net flow
\* is never reported as rising.
C26_ChangeHasSignOfNetFlow ==
    (TrendComputed /\ result.netFlow.k \in {"fin", "inf"}) =>
        /\ result.hourlyChange.k \in {"fin", "inf"}
        /\ QSign(result.hourlyChange) = QSign(result.netFlow)
        /\ WithoutRecentSamples =>
              /\ QSign(result.netFlow) > 0 => result.trend # "falling"
              /\ QSign(result.netFlow) < 0 => result.trend # "rising"

-----------------------------------------------------------------------------
(* The time-range picker and the hourly classification: claims C27, C28    *)
(* (specification SpecPicker). args is the selected preset, the picker's   *)
(* referenceDate prop and its value prop; handleChange delivers the        *)
(* preset's interval, which becomes the value the next render reads.       *)

\* timeRanges, in the order of the array
timeRanges == <<"6h", "12h", "24h", "3d", "1w", "1m", "3m", "6m", "1y", "2y", "all">>

isHourly(value) == value \in {"6h", "12h", "24h", "3d"}

\* isHourlyTimeRange of DamDetail: diffHours <= 72; a NaN difference
\* compares false
isHourlyTimeRange(range) ==
    IF range.from.k = "undefined" \/ range.to.k = "undefined" THEN FALSE
    ELSE /\ range.from.k = "date" /\ range.to.k = "date"
         /\ range.to.t - range.from.t <= 72 * SecPerHour

\* the test of getCurrentValue's loop for one entry of timeRanges
WithinTolerance(rangeDates, value, tolerance) ==
    /\ rangeDates.from.k = "date" /\ value.from.k = "date" /\ value.to.k = "date"
    /\ Abs(rangeDates.from.t - value.from.t) < tolerance
    /\ Abs(rangeDates.to.t - value.to.t) < tolerance

MatchesPreset(value, preset) ==
    WithinTolerance(getDates(preset, value.to), value,
                    IF isHourly(preset) THEN 5 * SecPerMin ELSE SecPerHour)

\* getCurrentValue: the first entry of timeRanges that matches, else "1w"
getCurrentValue(value) ==
    IF value.from.k = "undefined" \/ value.to.k = "undefined" THEN "1w"
    ELSE LET hits == {i \in 1..Len(timeRanges) : MatchesPreset(value, timeRanges[i])}
         IN  IF hits = {} THEN "1w"
             ELSE timeRanges[CHOOSE i \in hits : \A j \in hits : i <= j]

\* handleChange(selectedValue): the interval passed to onChange, or the
\* value as it was when no entry of timeRanges has that value
handleChangeDelivers(selectedValue, ref, value) ==
    IF selectedValue \in TimeRangeValues THEN getDates(selectedValue, ref) ELSE value

\* reference dates: with and without a time of day, a month's last day,
\* 29 February, and days one week, one year and two years after
\* 2020-01-01
PickerReferenceDates ==
    { DateAt(At(2024, 3, 15, 0, 0, 0)), DateAt(At(2024, 3, 15, 14, 30, 0)),
      DateAt(At(2024, 3, 16, 10, 20, 30)), DateAt(At(2024, 3, 31, 0, 0, 0)),
      DateAt(At(2024, 2, 29, 23, 59, 0)), DateAt(At(2020, 1, 8, 0, 0, 0)),
      DateAt(At(2021, 1, 1, 0, 0, 0)), DateAt(At(2022, 1, 1, 0, 30, 0)),
      DateAt(At(2023, 9, 15, 0, 0, 0)) }

\* the value prop before the selection: none, or a range whose end is not
\* chosen yet
PickerValues == {NoRange, Range(DateAt(At(2024, 3, 1, 0, 0, 0)), UndefinedDate)}

PickerArgs ==
    {[selectedValue |-> v, referenceDate |-> ref, value |-> value] :
        v \in TimeRangeValues \cup {"custom"}, ref \in PickerReferenceDates,
        value \in PickerValues}

InitPicker ==
    /\ PageIdle
    /\ FormIdle
    /\ call = "none"
    /\ args \in PickerArgs
    /\ result = <<>>
    /\ history = <<>>

\* the user selects an entry: the picker's value is what onChange received
ApplyHandleChange ==
    /\ call = "none"
    /\ call' = "handleChange"
    /\ result' = [value |-> handleChangeDelivers(args.selectedValue, args.referenceDate,
                                                 args.value)]
    /\ UNCHANGED <<args, now, history>>
    /\ UNCHANGED <<pageVars, formVars>>

\* the next render: the picker computes the entry it shows, the page
\* whether the range is an hourly one
ApplyGetCurrentValue ==
    /\ call = "handleChange"
    /\ call' = "getCurrentValue"
    /\ result' = [value |-> result.value,
                  shown |-> getCurrentValue(result.value),
                  isHourlyTimeRange |-> isHourlyTimeRange(result.value)]
    /\ UNCHANGED <<args, now, history>>
    /\ UNCHANGED <<pageVars, formVars>>

NextPicker == ApplyHandleChange \/ ApplyGetCurrentValue

SpecPicker == InitPicker /\ [][NextPicker]_vars

PresetShown == call = "getCurrentValue" /\ args.selectedValue \in TimeRangeValues

\* C27 (as claimed): for every reference date, each preset the picker marks
\* as hourly (6h, 12h, 24h, 3d) produces an interval DamDetail classifies as
\* hourly (to - from <= 72 hours), and each preset marked daily one it
\* classifies as not hourly.
C27_HourlyPresetsClassifiedHourly ==
    PresetShown => (result.isHourlyTimeRange <=> isHourly(args.selectedValue))

\* C28 (as claimed): for every preset v and every reference date, after
\* handleChange(v) delivered the preset's interval as the picker's value,
\* getCurrentValue reports v; with no complete value it reports "1w".
C28_PickerShowsSelectedPreset ==
    call = "getCurrentValue" =>
        /\ args.selectedValue \in TimeRangeValues => result.shown = args.selectedValue
        /\ (result.value.from.k = "undefined" \/ result.value.to.k = "undefined") =>
              result.shown = "1w"

-----------------------------------------------------------------------------
(* The SMS opt-in form (ConsentOptIn). Texts are sequences of characters.  *)

MaxPending == 2

\* value.replace(/\D/g, '')
digitsOf(value) == SelectSeq(value, LAMBDA c : c \in Digits)

\* phone.replace(/[\s\-\(\)\.]/g, '')
cleaned(phone) == SelectSeq(phone, LAMBDA c : c \notin {" ", "-", "(", ")", "."})

\* /^[\+]?[1-9][\d]{0,15}$/.test(s)
phoneRegexTest(s) ==
    LET body == IF Len(s) > 0 /\ s[1] = "+" THEN Tail(s) ELSE s
    IN /\ Len(body) >= 1
       /\ Len(body) <= 16
       /\ body[1] \in Digits \ {"0"}
       /\ \A i \in 2..Len(body) : body[i] \in Digits

validatePhoneNumber(phone) ==
    LET cleanPhone == cleaned(phone)
    IN phoneRegexTest(cleanPhone) /\ Len(cleanPhone) >= 10

\* phone.slice(from, to) with 0 <= from <= to
slice(phone, from, to) ==
    SubSeq(phone, from + 1, IF to < Len(phone) THEN to ELSE Len(phone))

formatPhoneNumber(value) ==
    LET phone == digitsOf(value)
    IN IF Len(phone) <= 3 THEN phone
       ELSE IF Len(phone) <= 6
            THEN <<"(">> \o slice(phone, 0, 3) \o <<")", " ">> \o slice(phone, 3, Len(phone))
            ELSE <<"(">> \o slice(phone, 0, 3) \o <<")", " ">> \o slice(phone, 3, 6)
                 \o <<"-">> \o slice(phone, 6, 10)

\* phone.trim()
trim(s) ==
    LET inked == {i \in 1..Len(s) : s[i] # " "}
    IN IF inked = {} THEN <<>>
       ELSE SubSeq(s, CHOOSE i \in inked : \A j \in inked : i <= j,
                      CHOOSE i \in inked : \A j \in inked : j <= i)

\* an entry of errors that is a message
Truthy(entry) == entry \notin {"absent", "null"}

\* newErrors of handleSubmit
newErrorsOf(phone, consented) ==
    [phone |-> IF trim(phone) = <<>> THEN "required"
               ELSE IF ~validatePhoneNumber(digitsOf(phone)) THEN "invalid"
               ELSE "absent",
     consent |-> IF ~consented THEN "required" ELSE "absent"]

\* Object.keys(newErrors).length > 0
HasKeys(newErrors) == newErrors.phone # "absent" \/ newErrors.consent # "absent"

submitNeverDisabled(submitting) == FALSE

\* the submit button's disabled attribute
submitDisabled(submitting) == submitting

\* the card with the inputs and the submit button is rendered
FormShown == submitStatus # "success"

\* the form's state, as a handler leaves it
FormState(phone, consented, submitting, status, errs) ==
    [phoneNumber |-> phone, consent |-> consented, isSubmitting |-> submitting,
     submitStatus |-> status, errors |-> errs]

Typed_empty == <<>>
Typed_555 == <<"5", "5", "5">>
Typed_555123 == <<"5", "5", "5", "1", "2", "3">>
Typed_5551234567 == <<"5", "5", "5", "1", "2", "3", "4", "5", "6", "7">>
Typed_formatted == <<"(", "5", "5", "5", ")", " ", "1", "2", "3", "-", "4", "5", "6", "7">>
Typed_0551234567 == <<"0", "5", "5", "1", "2", "3", "4", "5", "6", "7">>
Typed_15551234567 == <<"+", "1", "5", "5", "5", "1", "2", "3", "4", "5", "6", "7">>
Typed_letters == <<"a", "b", " ">>

TypedValues ==
    {Typed_empty, Typed_555, Typed_555123, Typed_5551234567, Typed_formatted,
     Typed_0551234567, Typed_15551234567, Typed_letters}

InitSms ==
    /\ PageIdle
    /\ FormIdle
    /\ PureIdle

handlePhoneChange ==
    /\ FormShown
    /\ \E value \in TypedValues :
          LET formatted == formatPhoneNumber(value)
              errs == IF Truthy(errors.phone) THEN [errors EXCEPT !.phone = "null"] ELSE errors
          IN /\ phoneNumber' = formatted
             /\ errors' = errs
             /\ call' = "handlePhoneChange"
             /\ args' = [value |-> value]
             /\ result' = FormState(formatted, consent, isSubmitting, submitStatus, errs)
    /\ UNCHANGED <<consent, isSubmitting, submitStatus, pending>>
    /\ UNCHANGED <<pageVars, now, history>>

handleConsentChange ==
    /\ FormShown
    /\ LET checked == ~consent
           errs == IF Truthy(errors.consent) THEN [errors EXCEPT !.consent = "null"] ELSE errors
       IN /\ consent' = checked
          /\ errors' = errs
          /\ call' = "handleConsentChange"
          /\ args' = [checked |-> checked]
          /\ result' = FormState(phoneNumber, checked, isSubmitting, submitStatus, errs)
    /\ UNCHANGED <<phoneNumber, isSubmitting, submitStatus, pending>>
    /\ UNCHANGED <<pageVars, now, history>>

handleSubmit ==
    /\ FormShown
    /\ ~submitDisabled(isSubmitting)
    /\ Len(pending) < MaxPending
    /\ LET newErrors == newErrorsOf(phoneNumber, consent)
           rejected == HasKeys(newErrors)
           errs == IF rejected THEN newErrors ELSE NoErrors
           submitting == IF rejected THEN isSubmitting ELSE TRUE
       IN /\ errors' = errs
          /\ isSubmitting' = submitting
          /\ pending' = IF rejected THEN pending
                        ELSE Append(pending, [cleanPhone |-> digitsOf(phoneNumber),
                                              consent |-> consent])
          /\ call' = "handleSubmit"
          /\ args' = FormState(phoneNumber, consent, isSubmitting, submitStatus, errors)
          /\ result' = FormState(phoneNumber, consent, submitting, submitStatus, errs)
    /\ UNCHANGED <<phoneNumber, consent, submitStatus>>
    /\ UNCHANGED <<pageVars, now, history>>

\* the 2000 ms timer of a waiting handleSubmit fires: the awaited promise
\* resolves, the try block ends and the finally block runs
SubmissionSettles ==
    /\ pending # <<>>
    /\ submitStatus' = "success"
    /\ isSubmitting' = FALSE
    /\ pending' = Tail(pending)
    /\ call' = "submissionSettles"
    /\ args' = Head(pending)
    /\ result' = FormState(phoneNumber, consent, FALSE, "success", errors)
    /\ UNCHANGED <<phoneNumber, consent, errors>>
    /\ UNCHANGED <<pageVars, now, history>>

handleStartOver ==
    /\ ~FormShown
    /\ phoneNumber' = <<>>
    /\ consent' = FALSE
    /\ submitStatus' = "null"
    /\ errors' = NoErrors
    /\ call' = "handleStartOver"
    /\ args' = <<>>
    /\ result' = FormState(<<>>, FALSE, isSubmitting, "null", NoErrors)
    /\ UNCHANGED <<isSubmitting, pending>>
    /\ UNCHANGED <<pageVars, now, history>>

NextSms ==
    \/ handlePhoneChange
    \/ handleConsentChange
    \/ handleSubmit
    \/ SubmissionSettles
    \/ handleStartOver

SpecSms == InitSms /\ [][NextSms]_vars

\* the timer of a waiting submission fires
SpecSmsLive == SpecSms /\ WF_vars(SubmissionSettles)

\* a phone number that is non-empty and valid: at least 10 digits, the
\* first of them not 0
ValidNumber(phone) ==
    LET digits == SelectSeq(phone, LAMBDA c : c \in Digits)
    IN phone # <<>> /\ Len(digits) >= 10 /\ digits[1] # "0"

SubmitHandled == call = "handleSubmit"

\* C29 (as claimed): handleSubmit starts a submission (isSubmitting becomes
\* true) only when the phone number is non-empty and valid and consent is
\* checked; otherwise it records a phone and/or consent error and leaves
\* isSubmitting false and submitStatus unchanged; so submitStatus is never
\* success without consent and a valid number. The first conjunct, the gate
\* itself, holds; the second does not: the inputs stay editable while the
\* submission waits, and the success card then shows what they hold.
C29_SubmitGate ==
    /\ SubmitHandled =>
          LET accepted == ValidNumber(args.phoneNumber) /\ args.consent
          IN /\ result.isSubmitting <=> accepted
             /\ ~accepted =>
                   /\ Truthy(result.errors.phone) \/ Truthy(result.errors.consent)
                   /\ Truthy(result.errors.phone) <=> ~ValidNumber(args.phoneNumber)
                   /\ Truthy(result.errors.consent) <=> ~args.consent
                   /\ result.submitStatus = args.submitStatus
    /\ submitStatus = "success" => consent /\ ValidNumber(phoneNumber)

InFlight == pending # <<>>

Ended == ~isSubmitting /\ submitStatus \in {"success", "error"}

\* C30: every submission that starts eventually ends with isSubmitting
\* false and submitStatus success or error; while a submission is in flight
\* the submit button is disabled, so no second submission overlaps it; and
\* handleStartOver returns the form to its initial state.
C30_SubmissionEndsAndResets ==
    /\ isSubmitting ~> Ended
    /\ [](InFlight => submitDisabled(isSubmitting) /\ Len(pending) = 1)
    /\ [][handleStartOver => FormIdle']_vars

C30_Witness ==
    /\ call = "handleStartOver"
    /\ args = <<>>
    /\ FormIdle

====
